---- MODULE Spec2Model ----
(***************************************************************************)
(* Terraspiel: the falling-sand tick pipeline (simulateWorld), the scene   *)
(* that owns the two grid buffers (GameScene) and the store it talks to    *)
(* (useGameStore).  One frame is GameScene.update: setFps, then possibly   *)
(* runSimulation.  runSimulation is broken into the passes of              *)
(* simulateWorld; Pass 1 and Pass 2 advance one cell per step, the         *)
(* particle passes one particle per step.  Every Math.random() draw is a   *)
(* nondeterministic choice.                                                *)
(*                                                                         *)
(* Cells are modelled by value.  Particle positions are kept as the cell   *)
(* the particle is over (floor(px), floor(py)); a velocity step is a       *)
(* nondeterministic displacement within the clamp range of the pass.      *)
(* Colours are not modelled.                                               *)
(***************************************************************************)
EXTENDS Integers, Sequences, FiniteSets, Bags, TLC

\* ------------------------------------------------------------------------
\* Bounds of the model
\* ------------------------------------------------------------------------
W == 3
H == 5
MaxTicks == 2
MaxPlace == 1
MaxResets == 1

\* ------------------------------------------------------------------------
\* Program constants
\* ------------------------------------------------------------------------
Undef == 0 - 1
ExplosionLife == 100
ThunderLife == 60
EtherLife == 150
DecayThreshold == 100
RainDecay == 10

Coords == (0 .. W - 1) \X (0 .. H - 1)
InGrid(x, y) == x >= 0 /\ x < W /\ y >= 0 /\ y < H

\* ------------------------------------------------------------------------
\* Element registry (elements.json as seen through the Element interface)
\* ------------------------------------------------------------------------
ElementNames ==
  {"EMPTY", "SOIL", "WATER", "SAND", "STONE", "OIL", "CLOUD", "CRYSTAL",
   "FIRE", "MUD", "MAGMA", "RUBY", "FERTILE_SOIL", "PLANT"}

HasFluidity(t) ==
  t \in {"SOIL", "WATER", "SAND", "OIL", "CRYSTAL", "MUD", "MAGMA", "FERTILE_SOIL", "PLANT"}

ElemState(t) == IF t \in {"WATER", "OIL", "MAGMA"} THEN "liquid" ELSE "solid"

Density(t) ==
  CASE t = "EMPTY" -> 0
    [] t = "CLOUD" -> 5
    [] t = "OIL" -> 20
    [] t = "WATER" -> 30
    [] t = "MUD" -> 35
    [] t = "SOIL" -> 40
    [] t = "FERTILE_SOIL" -> 40
    [] t = "SAND" -> 45
    [] t = "MAGMA" -> 50
    [] t = "CRYSTAL" -> 60
    [] OTHER -> 70

IsFlammable(t) == t \in {"SOIL", "OIL", "PLANT", "FERTILE_SOIL"}

IsStatic(t) == ~ HasFluidity(t)

\* ------------------------------------------------------------------------
\* Cells
\* ------------------------------------------------------------------------
MkCell(t) ==
  [type |-> t, counter |-> 0, rainCounter |-> 0, chargeCounter |-> 0,
   decayCounter |-> 0, rainThreshold |-> Undef, chargeThreshold |-> Undef,
   plantMode |-> "none", oilCounter |-> 0, etherStorage |-> Undef]

EmptyCell == MkCell("EMPTY")

\* plantGrowthBehavior.ts: the counters a PLANT withers, grows and turns to OIL at
DECAY_THRESHOLD == 2000
GROWTH_THRESHOLD == 100
OIL_THRESHOLD == 1500

AllEmpty == [c \in Coords |-> EmptyCell]
AllNone == [c \in Coords |-> "NONE"]

VARIABLES
  passResults,       \* the grids and gridChanged flags the ether, thunder and fire passes of the tick returned
  cloudsDecayed,     \* coordinates whose CLOUD decayed in the movement pass of the tick
  ruleLog,           \* what the last transformation pass did at each cell whose type
                     \* has a rule, in scan order: [at, met, done, eats, had, eaten, sp]
  storing,           \* which of the two handleCrystal of the sources the world runs:
                     \* TRUE the one that keeps an etherStorage (src/unnamed/part_021),
                     \* FALSE the one of behaviors/crystalBehavior.ts; fixed at start
  elementsLoad,      \* progress of loadElements: pending, loaded or failed
  rulesLoad,         \* progress of loadRules: pending, loaded or failed
  transformationRules, \* useGameStore.transformationRules
  particleInteractionRules, \* useGameStore.particleInteractionRules
  lastReset,         \* the last clearGrid / randomizeGrid call: [kind, grid it set,
                     \* frame, dirty: a particle was in the list and the front
                     \* buffer was another grid], <<>> when none
  grids,             \* GameScene.grids: the two cell buffers
  lastMoveGrids,     \* GameScene.lastMoveGrids
  activeBufferIndex, \* GameScene.activeBufferIndex
  particles,         \* GameScene.particles
  frameCount,        \* GameScene.frameCount
  storeGrid,         \* useGameStore.grid while updateSource = "ui" (the store's
                     \* own array; after setSimulationResult the store holds
                     \* the scene's front buffer itself and this is not read)
  storeLastMove,     \* useGameStore.lastMoveGrid, likewise
  storeParticles,    \* useGameStore.particles
  nextParticleId,    \* useGameStore.nextParticleId
  updateSource,      \* useGameStore.updateSource
  pc,                \* position inside GameScene.update / simulateWorld
  k,                 \* scan cursor of the running pass
  moved,             \* simulateWorld: moved bitmap (set of coordinates)
  spawned,           \* simulateWorld: spawnedParticles
  written,           \* coordinates of the write buffer assigned in Pass 1
  touched,           \* coordinates the last Pass 1 step assigned
  staleReads,        \* write-buffer coordinates the last Pass 1 step read
                     \* although the pass had not assigned them yet
  localNextId,       \* simulateWorld: nextParticleId / currentParticleId
  plist,             \* input list of the running particle pass
  pout,              \* output list of the running particle pass
  pnew,              \* handleFireParticles: newlySpawnedParticles
  pgrid,             \* grid copy the particle passes work on
  gridChanged,       \* some particle pass set gridChanged
  scattered,         \* particles createExplosion pushed in the running/last tick
  produced,          \* write buffer as the passes of the last tick left it
  born,              \* ids in spawn order of the particles handed to the passes
  ticked,            \* TRUE from the end of a runSimulation to the next event
  preGrid,           \* front buffer when the running/last tick started
  preBack,           \* back buffer when the running/last tick started
  preParticles,      \* particle list when the running/last tick started
  pointer,           \* cell and element of the last updateAtPointer call
  scanLog,           \* coordinates Pass 1 has visited in this tick, in order
  dirs,              \* scanRight of every tick run so far, in order
  impact,            \* <<cell, its type, the particle's id>> of the last THUNDER explosion in
                     \* the running/last tick, <<>> when there is none
  placed,            \* number of placements so far
  lastPlaced,        \* <<coordinate, element>> of a placement made since the
                     \* last tick or reset, <<>> when there is none
  resets,            \* number of clear/randomize calls so far
  horizon,           \* number of ticks the run is followed for
  stats,             \* the store's stats: a count per kind
  exits              \* THUNDER particles whose move of the running/last tick
                     \* ended outside the grid: [id, at]

loadVars == <<elementsLoad, rulesLoad, transformationRules, particleInteractionRules>>

vars == <<grids, lastMoveGrids, activeBufferIndex, particles, frameCount,
          storeGrid, storeLastMove, storeParticles,
          nextParticleId, updateSource, pc, k, moved, spawned, written,
          touched, staleReads, localNextId, plist, pout, pnew, pgrid, gridChanged,
          scattered, produced, born, ticked, preGrid, preBack, preParticles, placed,
          lastPlaced, pointer, scanLog, dirs, impact, resets, horizon, stats, passResults, cloudsDecayed, ruleLog, storing, loadVars, lastReset, exits>>

readIdx == activeBufferIndex
writeIdx == 1 - activeBufferIndex
scanRight == frameCount % 2 = 0

\* Scan position k -> coordinate (rows bottom-up, x by scan direction)
ScanY(n) == H - 1 - (n \div W)
ScanXLeftToRight(n) == n % W
ScanX(n) == IF scanRight THEN n % W ELSE W - 1 - (n % W)

\* ------------------------------------------------------------------------
\* Pass 1 behaviours.  A behaviour result is the new write buffer (g), the
\* new write last-move grid (l), the new moved bitmap (m), the coordinates
\* it assigned (t) and the particle it returned (p, <<>> when none).
\* ------------------------------------------------------------------------
Res(g, l, m, t) ==
  [ok |-> TRUE, g |-> g, l |-> l, m |-> m, t |-> t, p |-> <<>>, rd |-> {}]
NoMove == [ok |-> FALSE]

Draws == [skip : BOOLEAN, res1 : BOOLEAN, res2 : BOOLEAN, spr : BOOLEAN]

\* the swap test without the comparison of densities
CanSwapAnyDensity(me, target) ==
  HasFluidity(target) /\ ElemState(target) = "liquid"

\* granularBehavior.ts: the swap test of a mover with a target cell
CanSwap(me, target) ==
  HasFluidity(target) /\ Density(me) > Density(target) /\ ElemState(target) = "liquid"

Stay(rg, rl, wg, wl, mv, c, chained) ==
  IF chained THEN Res(wg, wl, mv, {})
  ELSE Res([wg EXCEPT ![c] = rg[c]], [wl EXCEPT ![c] = rl[c]], mv, {c})

\* MoveTo forgetting to clear the coordinate the cell leaves
MoveToKeepingSource(rg, wg, wl, mv, c, d, lm) ==
  Res([wg EXCEPT ![c] = rg[c], ![d] = rg[c]], [wl EXCEPT ![d] = lm],
      mv \cup {c, d}, {c, d})

MoveTo(rg, wg, wl, mv, c, d, lm) ==
  Res([wg EXCEPT ![c] = EmptyCell, ![d] = rg[c]], [wl EXCEPT ![d] = lm],
      mv \cup {c, d}, {c, d})

SwapWith(rg, rl, wg, wl, mv, c, d, lm) ==
  Res([wg EXCEPT ![c] = rg[d], ![d] = rg[c]], [wl EXCEPT ![c] = rl[d], ![d] = lm],
      mv \cup {c, d}, {c, d})

\* number of EMPTY cells directly below (x, y), counted to depth 3
OpenSpaces(rg, x, y) ==
  IF ~(y + 1 < H /\ rg[<<x, y + 1>>].type = "EMPTY") THEN 0
  ELSE IF ~(y + 2 < H /\ rg[<<x, y + 2>>].type = "EMPTY") THEN 1
  ELSE IF ~(y + 3 < H /\ rg[<<x, y + 3>>].type = "EMPTY") THEN 2
  ELSE 3

GranularSide(rg, rl, wg, wl, mv, x, y, right, chained, d) ==
  LET c == <<x, y>>
      canGoLeft == x - 1 >= 0 /\ rg[<<x - 1, y>>].type = "EMPTY" /\ <<x - 1, y>> \notin mv
      canGoRight == x + 1 < W /\ rg[<<x + 1, y>>].type = "EMPTY" /\ <<x + 1, y>> \notin mv
      l == OpenSpaces(rg, x - 1, y)
      r == OpenSpaces(rg, x + 1, y)
      moveDir == IF l > r THEN 0 - 1 ELSE IF r > l THEN 1 ELSE IF right THEN 1 ELSE 0 - 1
  IN IF ~d.spr THEN Stay(rg, rl, wg, wl, mv, c, chained)
     ELSE IF canGoLeft /\ canGoRight
       THEN MoveTo(rg, wg, wl, mv, c, <<x + moveDir, y>>,
                   IF moveDir = 0 - 1 THEN "LEFT" ELSE "RIGHT")
     ELSE IF canGoLeft THEN MoveTo(rg, wg, wl, mv, c, <<x - 1, y>>, "LEFT")
     ELSE IF canGoRight THEN MoveTo(rg, wg, wl, mv, c, <<x + 1, y>>, "RIGHT")
     ELSE Stay(rg, rl, wg, wl, mv, c, chained)

\* one attempt of the diagonal loop; NoMove when the loop goes on
DiagAttempt(rg, rl, wg, wl, mv, x, y, dx, pass) ==
  LET c == <<x, y>>
      tx == x + dx
      t == <<tx, y + 1>>
      lm == IF dx = 0 - 1 THEN "LEFT" ELSE "RIGHT"
  IN IF ~(tx >= 0 /\ tx < W /\ t \notin mv /\ pass) THEN NoMove
     ELSE IF rg[t].type = "EMPTY" THEN MoveTo(rg, wg, wl, mv, c, t, lm)
     ELSE IF CanSwap(rg[c].type, rg[t].type) THEN SwapWith(rg, rl, wg, wl, mv, c, t, lm)
     ELSE NoMove

GranularDiag(rg, rl, wg, wl, mv, x, y, right, chained, d) ==
  LET c == <<x, y>>
      initialDir == IF right THEN 1 ELSE 0 - 1
      dir == IF rl[c] = "LEFT" THEN 0 - 1 ELSE IF rl[c] = "RIGHT" THEN 1 ELSE initialDir
      a1 == DiagAttempt(rg, rl, wg, wl, mv, x, y, dir, d.res1)
      a2 == DiagAttempt(rg, rl, wg, wl, mv, x, y, 0 - dir, d.res2)
  IN IF y + 1 < H /\ a1.ok THEN a1
     ELSE IF y + 1 < H /\ a2.ok THEN a2
     ELSE GranularSide(rg, rl, wg, wl, mv, x, y, right, chained, d)

\* GranularDown with the bounds test off by one: nothing enters the bottom row
GranularDownOffByOne(rg, rl, wg, wl, mv, x, y, right, chained, d) ==
  LET c == <<x, y>>
      b == <<x, y + 1>>
  IN IF y + 1 < H - 1 /\ b \notin mv /\ rg[b].type = "EMPTY"
       THEN MoveTo(rg, wg, wl, mv, c, b, "NONE")
     ELSE IF y + 1 < H - 1 /\ b \notin mv /\ CanSwap(rg[c].type, rg[b].type)
       THEN SwapWith(rg, rl, wg, wl, mv, c, b, "NONE")
     ELSE GranularDiag(rg, rl, wg, wl, mv, x, y, right, chained, d)

\* GranularDown without the test of moved[y + 1][x]
GranularDownUnguarded(rg, rl, wg, wl, mv, x, y, right, chained, d) ==
  LET c == <<x, y>>
      b == <<x, y + 1>>
  IN IF y + 1 < H /\ rg[b].type = "EMPTY"
       THEN MoveTo(rg, wg, wl, mv, c, b, "NONE")
     ELSE IF y + 1 < H /\ CanSwap(rg[c].type, rg[b].type)
       THEN SwapWith(rg, rl, wg, wl, mv, c, b, "NONE")
     ELSE GranularDiag(rg, rl, wg, wl, mv, x, y, right, chained, d)

GranularDown(rg, rl, wg, wl, mv, x, y, right, chained, d) ==
  LET c == <<x, y>>
      b == <<x, y + 1>>
  IN IF y + 1 < H /\ b \notin mv /\ rg[b].type = "EMPTY"
       THEN MoveTo(rg, wg, wl, mv, c, b, "NONE")
     ELSE IF y + 1 < H /\ b \notin mv /\ CanSwap(rg[c].type, rg[b].type)
       THEN SwapWith(rg, rl, wg, wl, mv, c, b, "NONE")
     ELSE GranularDiag(rg, rl, wg, wl, mv, x, y, right, chained, d)

handleGranular(rg, rl, wg, wl, mv, x, y, right, chained, d) ==
  LET c == <<x, y>>
      b == <<x, y + 1>>
      me == rg[c].type
      settled == y + 1 < H /\ rg[b].type # "EMPTY"
                 /\ ~CanSwap(me, rg[b].type) /\ ElemState(me) # "liquid"
  IN IF ~HasFluidity(me) THEN Stay(rg, rl, wg, wl, mv, c, chained)
     ELSE IF settled /\ d.skip THEN Stay(rg, rl, wg, wl, mv, c, chained)
     ELSE GranularDown(rg, rl, wg, wl, mv, x, y, right, chained, d)

\* ------------------------------------------------------------------------
\* Particles.  id = -1 is the sentinel of a particle spawned in Pass 1.
\* ------------------------------------------------------------------------
Particle(id, t, x, y, life) == [id |-> id, type |-> t, x |-> x, y |-> y, life |-> life]

RainThresholds == {80, 119}
ChargeThresholds == {600, 999}
OilFireLives == {40, 59}

CloudDraws ==
  [rt : RainThresholds, ct : ChargeThresholds, decay : BOOLEAN, rain : BOOLEAN,
   charge : BOOLEAN, up : BOOLEAN, diag : BOOLEAN, side : BOOLEAN,
   rev : BOOLEAN, rev2 : BOOLEAN]

TouchesCloud(rg, x, y) ==
  \E i \in {0 - 1, 0, 1}, j \in {0 - 1, 0, 1} :
    /\ ~(i = 0 /\ j = 0)
    /\ InGrid(x + j, y + i)
    /\ rg[<<x + j, y + i>>].type = "CLOUD"

\* a cloud may enter an EMPTY or WATER coordinate that no mover has claimed
CloudTarget(rg, mv, t) ==
  /\ InGrid(t[1], t[2])
  /\ rg[t].type \in {"EMPTY", "WATER"}
  /\ t \notin mv

\* CloudMove leaving EMPTY behind whatever the target held
CloudMoveOverWater(rg, wg, wl, mv, c, t, cloud, tt, p) ==
  [ok |-> TRUE,
   g |-> [wg EXCEPT ![t] = cloud, ![c] = EmptyCell],
   l |-> wl, m |-> mv \cup {c, t}, t |-> tt \cup {c, t}, p |-> p, rd |-> {c}]

\* CloudMove writing the cell as it was read, without updatedCounters
CloudMoveStaleCounters(rg, wg, wl, mv, c, t, cloud, tt, p) ==
  [ok |-> TRUE,
   g |-> [wg EXCEPT ![t] = rg[c],
                    ![c] = IF rg[t].type = "WATER" THEN rg[t] ELSE EmptyCell],
   l |-> wl, m |-> mv \cup {c, t}, t |-> tt \cup {c, t}, p |-> p, rd |-> {c}]

\* the cloud moves to t; a WATER cell found there goes to the cloud's old place
CloudMove(rg, wg, wl, mv, c, t, cloud, tt, p) ==
  [ok |-> TRUE,
   g |-> [wg EXCEPT ![t] = cloud,
                    ![c] = IF rg[t].type = "WATER" THEN rg[t] ELSE EmptyCell],
   l |-> wl, m |-> mv \cup {c, t}, t |-> tt \cup {c, t}, p |-> p, rd |-> {c}]

handleCloud(rg, wg, wl, mv, x, y, d) ==
  LET c == <<x, y>>
      b == <<x, y + 1>>
      cell == rg[c]
      rainThreshold == IF cell.rainThreshold = Undef THEN d.rt ELSE cell.rainThreshold
      chargeThreshold == IF cell.chargeThreshold = Undef THEN d.ct ELSE cell.chargeThreshold
      touching == TouchesCloud(rg, x, y)
      rain0 == cell.rainCounter + (IF touching THEN 1 ELSE 0)
      charge0 == cell.chargeCounter + (IF touching THEN 1 ELSE 0)
      decay1 == cell.decayCounter + (IF d.decay THEN 1 ELSE 0)
      rain1 == rain0 + (IF d.rain THEN 1 ELSE 0)
      rains == rain1 >= rainThreshold /\ y + 1 < H /\ rg[b].type = "EMPTY" /\ b \notin mv
      wg1 == IF rains THEN [wg EXCEPT ![b] = MkCell("WATER")] ELSE wg
      mv1 == IF rains THEN mv \cup {b} ELSE mv
      t1 == IF rains THEN {b} ELSE {}
      rain2 == IF rains THEN 0 ELSE rain1
      decay2 == IF rains THEN decay1 + RainDecay ELSE decay1
      charge1 == charge0 + (IF d.charge THEN 1 ELSE 0)
      fires == charge1 >= chargeThreshold
      p == IF fires THEN <<Particle(0 - 1, "THUNDER", x, y, ThunderLife)>> ELSE <<>>
      charge2 == IF fires THEN 0 ELSE charge1
      currentCell == IF wg1[c].type # "EMPTY" THEN wg1[c] ELSE rg[c]
      cloud == [currentCell EXCEPT !.type = "CLOUD", !.rainCounter = rain2,
                  !.chargeCounter = charge2, !.decayCounter = decay2,
                  !.rainThreshold = rainThreshold, !.chargeThreshold = chargeThreshold]
      dx1 == IF d.rev THEN 1 ELSE 0 - 1
      up == <<x, y - 1>>
      dg1 == <<x + dx1, y - 1>>
      dg2 == <<x - dx1, y - 1>>
      dx2 == IF d.rev2 THEN 1 ELSE 0 - 1
      sd1 == <<x + dx2, y>>
      sd2 == <<x - dx2, y>>
  IN IF decay1 >= DecayThreshold
       THEN [ok |-> TRUE, g |-> [wg EXCEPT ![c] = EmptyCell], l |-> wl,
             m |-> mv \cup {c}, t |-> {c}, p |-> <<>>, rd |-> {}]
     ELSE IF y > 0 /\ d.up /\ CloudTarget(rg, mv1, up)
       THEN CloudMove(rg, wg1, wl, mv1, c, up, cloud, t1, p)
     ELSE IF y > 0 /\ d.diag /\ CloudTarget(rg, mv1, dg1)
       THEN CloudMove(rg, wg1, wl, mv1, c, dg1, cloud, t1, p)
     ELSE IF y > 0 /\ d.diag /\ CloudTarget(rg, mv1, dg2)
       THEN CloudMove(rg, wg1, wl, mv1, c, dg2, cloud, t1, p)
     ELSE IF d.side /\ CloudTarget(rg, mv1, sd1)
       THEN CloudMove(rg, wg1, wl, mv1, c, sd1, cloud, t1, p)
     ELSE IF d.side /\ CloudTarget(rg, mv1, sd2)
       THEN CloudMove(rg, wg1, wl, mv1, c, sd2, cloud, t1, p)
     ELSE [ok |-> TRUE, g |-> [wg1 EXCEPT ![c] = cloud], l |-> wl,
           m |-> mv1, t |-> t1 \cup {c}, p |-> p, rd |-> {c}]

\* handleCrystal's draws: the emission (ETHER_SPAWN_CHANCE), its consumption
\* (NO_CONSUME_CHANCE) and the initial storage, Math.floor(Math.random() * 10) + 5,
\* of which the model takes the smallest and the largest value
InitialStorages == {5, 14}
CrystalDraws == [emit : BOOLEAN, consume : BOOLEAN, init : InitialStorages]

\* crystalBehavior.ts: the crystal's own logic only decides on an emission:
\* [g |-> write buffer, m |-> moved, t |-> coordinates assigned,
\*  p |-> the particle returned]
handleCrystal(rg, wg, mv, x, y, cd) ==
  [g |-> wg, m |-> mv, t |-> {},
   p |-> IF cd.emit THEN <<Particle(0 - 1, "ETHER", x, y, EtherLife)>> ELSE <<>>]

\* handleCrystal of src/unnamed/part_021, which keeps the etherStorage
handleCrystalStoring(rg, wg, mv, x, y, cd) ==
  LET c == <<x, y>>
      cell == rg[c]
      etherStorage == IF cell.etherStorage = Undef THEN cd.init ELSE cell.etherStorage
      left == IF cd.consume THEN etherStorage - 1 ELSE etherStorage
  IN IF cd.emit /\ etherStorage > 0
       THEN IF left <= 0
              THEN [g |-> [wg EXCEPT ![c] = EmptyCell], m |-> mv \cup {c}, t |-> {c},
                    p |-> <<>>]
              ELSE [g |-> [wg EXCEPT ![c] = [cell EXCEPT !.etherStorage = left]], m |-> mv,
                    t |-> {c}, p |-> <<Particle(0 - 1, "ETHER", x, y, EtherLife)>>]
     ELSE [g |-> [wg EXCEPT ![c] = [cell EXCEPT !.etherStorage = etherStorage]], m |-> mv,
           t |-> {c}, p |-> <<>>]

\* physics.ts handleCrystalBehavior: crystal logic, then the destroyed test
\* on the write buffer, then granular with isChained = true
handleCrystalBehavior(rg, rl, wg, wl, mv, x, y, right, cd, d) ==
  LET c == <<x, y>>
      h == IF storing THEN handleCrystalStoring(rg, wg, mv, x, y, cd)
           ELSE handleCrystal(rg, wg, mv, x, y, cd)
      r == handleGranular(rg, rl, h.g, wl, h.m, x, y, right, TRUE, d)
  IN IF h.g[c].type = "EMPTY"
       THEN [ok |-> TRUE, g |-> h.g, l |-> wl, m |-> h.m, t |-> h.t, p |-> h.p,
             rd |-> {c} \ h.t]
     ELSE [r EXCEPT !.p = h.p, !.t = r.t \cup h.t, !.rd = {c} \ h.t]

\* oilBehavior.ts handleOil + physics.ts handleOilBehavior
handleOilBehavior(rg, rl, wg, wl, mv, x, y, right, combust, life, d) ==
  LET c == <<x, y>>
  IN IF combust
       THEN [ok |-> TRUE, g |-> [wg EXCEPT ![c] = EmptyCell], l |-> wl, m |-> mv,
             t |-> {c}, p |-> <<Particle(0 - 1, "FIRE", x, y, life)>>, rd |-> {}]
     ELSE IF c \notin mv THEN handleGranular(rg, rl, wg, wl, mv, x, y, right, FALSE, d)
     ELSE Res(wg, wl, mv, {})

\* plantBehavior: withered plants and plants over EMPTY go to granular
handlePlant(rg, rl, wg, wl, mv, x, y, right, d) ==
  LET c == <<x, y>>
  IN IF rg[c].plantMode = "withered"
       THEN handleGranular(rg, rl, wg, wl, mv, x, y, right, FALSE, d)
     ELSE IF y + 1 < H /\ rg[<<x, y + 1>>].type = "EMPTY"
       THEN handleGranular(rg, rl, wg, wl, mv, x, y, right, FALSE, d)
     ELSE Res([wg EXCEPT ![c] = rg[c]], wl, mv, {c})

\* physics.ts: the behaviors map
GranularNames ==
  {"SOIL", "FERTILE_SOIL", "WATER", "MUD", "SAND", "STONE", "RUBY", "MAGMA"}

\* every result the behaviour of the cell at (x, y) can produce
Behave(rg, rl, wg, wl, mv, x, y, right) ==
  LET t == rg[<<x, y>>].type
  IN IF t \in GranularNames
       THEN {handleGranular(rg, rl, wg, wl, mv, x, y, right, FALSE, d) : d \in Draws}
     ELSE IF t = "CLOUD"
       THEN {handleCloud(rg, wg, wl, mv, x, y, d) : d \in CloudDraws}
     ELSE IF t = "OIL"
       THEN {handleOilBehavior(rg, rl, wg, wl, mv, x, y, right, cb, lf, d) :
               cb \in BOOLEAN, lf \in OilFireLives, d \in Draws}
     ELSE IF t = "PLANT"
       THEN {handlePlant(rg, rl, wg, wl, mv, x, y, right, d) : d \in Draws}
     ELSE IF t = "CRYSTAL"
       THEN {handleCrystalBehavior(rg, rl, wg, wl, mv, x, y, right, cd, d) :
               cd \in CrystalDraws, d \in Draws}
     ELSE {Res([wg EXCEPT ![<<x, y>>] = rg[<<x, y>>]], wl, mv, {<<x, y>>})}

\* ------------------------------------------------------------------------
\* Pass 2: transformation rules (rules.json as seen through
\* TransformationRule; SOIL -> MUD is the rule of rules.ts)
\* ------------------------------------------------------------------------
TransformationRules ==
  << [from |-> "SOIL", to |-> "MUD", threshold |-> 10, element |-> "WATER",
      min |-> 1, max |-> 8, consumes |-> "WATER", spawnParticle |-> "none"],
     [from |-> "MUD", to |-> "FERTILE_SOIL", threshold |-> 2, element |-> "WATER",
      min |-> 0, max |-> 0, consumes |-> "none", spawnParticle |-> "ETHER"] >>

Offsets == {0 - 1, 0, 1}
Moore(x, y) ==
  {<<x + i, y + j>> : i \in Offsets, j \in Offsets} \cap (Coords \ {<<x, y>>})

\* checkCondition, case 'surrounding'
checkCondition(rule, g, x, y) ==
  LET count == Cardinality({n \in Moore(x, y) : g[n].type = rule.element})
  IN count >= rule.min /\ count <= rule.max

\* particle-interaction rules of rules.json
ParticleInteractionRules ==
  << [type |-> "particle_interaction", particle |-> "ETHER", from |-> "SOIL",
      to |-> "FERTILE_SOIL"],
     [type |-> "particle_interaction", particle |-> "ETHER", from |-> "SAND",
      to |-> "CRYSTAL"] >>

\* rules.json: the transformation rules (their type is not
\* 'particle_interaction') followed by the particle-interaction rules
RulesJson ==
  [i \in 1 .. Len(TransformationRules) |-> TransformationRules[i] @@ [type |-> "cell"]]
  \o ParticleInteractionRules

\* a rules.json that also holds a rule whose target is in no registry
UnknownTargetRule ==
  [type |-> "cell", from |-> "SAND", to |-> "GLASS", threshold |-> 1, element |-> "WATER",
   min |-> 1, max |-> 8, consumes |-> "none", spawnParticle |-> "none"]

RuleFiles == {RulesJson, <<UnknownTargetRule>> \o RulesJson}

RECURSIVE FilterType(_, _)
\* rules.filter(r => (r.type === 'particle_interaction') === same)
FilterType(rules, same) ==
  IF rules = <<>> THEN <<>>
  ELSE IF (Head(rules).type = "particle_interaction") = same
    THEN <<Head(rules)>> \o FilterType(Tail(rules), same)
  ELSE FilterType(Tail(rules), same)

\* gameStore.loadRules: what set() receives for the parsed file
loadRules(file) ==
  [transformationRules |-> FilterType(file, FALSE),
   particleInteractionRules |-> FilterType(file, TRUE)]

RuleIdx(g, x, y) ==
  {i \in 1 .. Len(transformationRules) : transformationRules[i].from = g[<<x, y>>].type}

MetRules(g, x, y) ==
  {i \in RuleIdx(g, x, y) : checkCondition(transformationRules[i], g, x, y)}

Min(S) == CHOOSE m \in S : \A n \in S : m <= n

\* orders in which the shuffled directions array [-1, 0, 1] can come out
Perms == {q \in [1 .. 3 -> Offsets] : q[1] # q[2] /\ q[1] # q[3] /\ q[2] # q[3]}

\* the neighbours in the order "for j of directions, for i of directions"
ScanOrder(q, x, y) ==
  [n \in 1 .. 9 |-> <<x + q[((n - 1) % 3) + 1], y + q[((n - 1) \div 3) + 1]>>]

\* the first neighbour inside the grid in that order, whatever its type
ConsumedAnyNeighbour(g, q, x, y, t) ==
  LET o == ScanOrder(q, x, y)
      hits == {n \in 1 .. 9 : o[n] # <<x, y>> /\ o[n] \in Coords}
  IN IF hits = {} THEN <<>> ELSE <<o[Min(hits)]>>

\* first neighbour of the consumed type in that order, <<>> when there is none
Consumed(g, q, x, y, t) ==
  LET o == ScanOrder(q, x, y)
      hits == {n \in 1 .. 9 : o[n] # <<x, y>> /\ o[n] \in Coords /\ g[o[n]].type = t}
  IN IF hits = {} THEN <<>> ELSE <<o[Min(hits)]>>

\* what handleTransformations returns: an object {particles, nextId}, which
\* has no id, type or life of its own (Undef stands for undefined)
ResultObject(ps, n) ==
  [id |-> Undef - 1, type |-> "undefined", x |-> Undef, y |-> Undef, life |-> Undef,
   particles |-> ps, nextId |-> n]

TransformDraws == [roll : BOOLEAN, q : Perms, ether : BOOLEAN]

\* the entry of the pass's log for the cell at c: whether a rule's conditions
\* held, whether the transformation was committed, the type the rule
\* consumes, how many neighbours of that type there were and the neighbour
\* that was rewritten, and the particle made for the rule's spawnParticle
RuleEvent(c, met, done, eats, had, eaten, sp) ==
  [at |-> c, met |-> met, done |-> done, eats |-> eats, had |-> had, eaten |-> eaten,
   sp |-> sp]

\* handleTransformations without the reset of the counter when no rule's
\* conditions hold
handleTransformationsKeepingCounter(g, x, y, storeId, d) ==
  LET c == <<x, y>>
      met == MetRules(g, x, y)
      rule == transformationRules[Min(met)]
      newCounter == g[c].counter + 1
      eaten == IF rule.consumes = "none" THEN <<>> ELSE Consumed(g, d.q, x, y, rule.consumes)
      had == Cardinality({n \in Moore(x, y) : g[n].type = rule.consumes})
      g1 == IF eaten = <<>> THEN g ELSE [g EXCEPT ![eaten[1]] = EmptyCell]
      sp == IF rule.spawnParticle = "none" THEN <<>>
            ELSE <<Particle(storeId, rule.spawnParticle, x, y, EtherLife)>>
      et == IF d.ether THEN <<Particle(storeId + Len(sp), "ETHER", x, y, EtherLife)>>
            ELSE <<>>
      idle == RuleEvent(c, TRUE, FALSE, "none", 0, <<>>, <<>>)
  IN IF RuleIdx(g, x, y) = {} THEN [g |-> g, ret |-> ResultObject(<<>>, storeId), ev |-> <<>>]
     ELSE IF met = {}
       THEN [g |-> g, ret |-> ResultObject(<<>>, storeId),
             ev |-> <<RuleEvent(c, FALSE, FALSE, "none", 0, <<>>, <<>>)>>]
     ELSE IF ~d.roll THEN [g |-> g, ret |-> ResultObject(<<>>, storeId), ev |-> <<idle>>]
     ELSE IF newCounter >= rule.threshold
       THEN [g |-> [g1 EXCEPT ![c] =
                      IF rule.to = "PLANT"
                        THEN [MkCell("PLANT") EXCEPT !.plantMode =
                                IF y - 1 >= 0 /\ g[<<x, y - 1>>].type = "EMPTY"
                                  THEN "ground_cover" ELSE "stem"]
                        ELSE MkCell(rule.to)],
             ret |-> ResultObject(sp \o et, storeId + Len(sp) + Len(et)),
             ev |-> <<RuleEvent(c, TRUE, TRUE, rule.consumes, had, eaten, sp)>>]
     ELSE [g |-> [g EXCEPT ![c].counter = newCounter], ret |-> ResultObject(<<>>, storeId),
           ev |-> <<idle>>]

\* handleTransformations: [g |-> grid afterwards, ret |-> returned object,
\* ev |-> the entry for the pass's log, <<>> for a type without a rule]
handleTransformations(g, x, y, storeId, d) ==
  LET c == <<x, y>>
      met == MetRules(g, x, y)
      rule == transformationRules[Min(met)]
      newCounter == g[c].counter + 1
      eaten == IF rule.consumes = "none" THEN <<>> ELSE Consumed(g, d.q, x, y, rule.consumes)
      had == Cardinality({n \in Moore(x, y) : g[n].type = rule.consumes})
      g1 == IF eaten = <<>> THEN g ELSE [g EXCEPT ![eaten[1]] = EmptyCell]
      sp == IF rule.spawnParticle = "none" THEN <<>>
            ELSE <<Particle(storeId, rule.spawnParticle, x, y, EtherLife)>>
      et == IF d.ether THEN <<Particle(storeId + Len(sp), "ETHER", x, y, EtherLife)>>
            ELSE <<>>
      idle == RuleEvent(c, TRUE, FALSE, "none", 0, <<>>, <<>>)
  IN IF RuleIdx(g, x, y) = {} THEN [g |-> g, ret |-> ResultObject(<<>>, storeId), ev |-> <<>>]
     ELSE IF met = {}
       THEN [g |-> [g EXCEPT ![c].counter = 0], ret |-> ResultObject(<<>>, storeId),
             ev |-> <<RuleEvent(c, FALSE, FALSE, "none", 0, <<>>, <<>>)>>]
     ELSE IF ~d.roll THEN [g |-> g, ret |-> ResultObject(<<>>, storeId), ev |-> <<idle>>]
     ELSE IF newCounter >= rule.threshold
       THEN [g |-> [g1 EXCEPT ![c] =
                      IF rule.to = "PLANT"
                        THEN [MkCell("PLANT") EXCEPT !.plantMode =
                                IF y - 1 >= 0 /\ g[<<x, y - 1>>].type = "EMPTY"
                                  THEN "ground_cover" ELSE "stem"]
                        ELSE MkCell(rule.to)],
             ret |-> ResultObject(sp \o et, storeId + Len(sp) + Len(et)),
             ev |-> <<RuleEvent(c, TRUE, TRUE, rule.consumes, had, eaten, sp)>>]
     ELSE [g |-> [g EXCEPT ![c].counter = newCounter], ret |-> ResultObject(<<>>, storeId),
           ev |-> <<idle>>]

\* ------------------------------------------------------------------------
\* Particle passes
\* ------------------------------------------------------------------------
RECURSIVE Living(_)
\* particles.filter(p => p.life > 0); undefined > 0 is false
Living(ps) ==
  IF ps = <<>> THEN <<>>
  ELSE IF Head(ps).life > 0 THEN <<Head(ps)>> \o Living(Tail(ps))
  ELSE Living(Tail(ps))

RECURSIVE OfType(_, _, _)
\* particles.filter(p => (p.type === t) === same)
OfType(ps, t, same) ==
  IF ps = <<>> THEN <<>>
  ELSE IF (Head(ps).type = t) = same THEN <<Head(ps)>> \o OfType(Tail(ps), t, same)
  ELSE OfType(Tail(ps), t, same)

\* AssignIds without the increment of the counter
AssignIdsSame(ps, n) ==
  [i \in 1 .. Len(ps) |-> IF ps[i].id = 0 - 1 THEN [ps[i] EXCEPT !.id = n] ELSE ps[i]]

RECURSIVE AssignIds(_, _)
\* physics.ts 196-200: real ids for the particles that carry the sentinel
AssignIds(ps, n) ==
  IF ps = <<>> THEN <<>>
  ELSE IF Head(ps).id = 0 - 1
    THEN <<[Head(ps) EXCEPT !.id = n]>> \o AssignIds(Tail(ps), n + 1)
  ELSE <<Head(ps)>> \o AssignIds(Tail(ps), n)

Sentinels(ps) == Cardinality({i \in 1 .. Len(ps) : ps[i].id = 0 - 1})

\* handleEtherParticles: the etherRules map built from the rules it is
\* handed (a later rule for the same cell type replaces an earlier one)
EtherRules ==
  {i \in 1 .. Len(particleInteractionRules) : particleInteractionRules[i].particle = "ETHER"}
EtherRuleFrom == {particleInteractionRules[i].from : i \in EtherRules}
EtherRuleTo(t) ==
  LET last == CHOOSE i \in EtherRules :
                /\ particleInteractionRules[i].from = t
                /\ \A j \in EtherRules : particleInteractionRules[j].from = t => j <= i
  IN particleInteractionRules[last].to

Clamp(v, lo, hi) == IF v < lo THEN lo ELSE IF v > hi THEN hi ELSE v

\* cells an ETHER particle at (x, y) can be over after drift and soft bounce
EtherTargets(x, y) ==
  {<<Clamp(x + i, 0, W - 1), Clamp(y + j, 0, H - 1)>> : i \in Offsets, j \in Offsets}

\* indices of the ETHER particles the spatial hash holds in the 8 cells around c
HashNeighbours(ps, c, id) ==
  {i \in 1 .. Len(ps) : /\ ps[i].type = "ETHER"
                        /\ <<ps[i].x, ps[i].y>> \in Moore(c[1], c[2])
                        /\ ps[i].id # id}

\* handleEtherParticles, the map callback for ps[i]:
\* [ps |-> input list (neighbours consumed), out |-> <<particle>> or <<>>,
\*  g |-> grid, ch |-> gridChanged]
EtherStepResult(ps, g, i, c, roll) ==
  LET p == ps[i]
      life == p.life - 1
      ct == g[c].type
      hit == ct \in EtherRuleFrom /\ roll
      nb == HashNeighbours(ps, c, p.id)
      moved1 == [p EXCEPT !.life = life, !.x = c[1], !.y = c[2]]
  IN IF p.type # "ETHER" THEN [ps |-> ps, out |-> <<p>>, g |-> g, ch |-> FALSE]
     ELSE IF life <= 0 THEN [ps |-> ps, out |-> <<>>, g |-> g, ch |-> FALSE]
     ELSE IF ~hit THEN [ps |-> ps, out |-> <<moved1>>, g |-> g, ch |-> FALSE]
     ELSE IF EtherRuleTo(ct) = "CRYSTAL"
       THEN [ps |-> [n \in 1 .. Len(ps) |-> IF n \in nb THEN [ps[n] EXCEPT !.life = 0] ELSE ps[n]],
             out |-> <<[moved1 EXCEPT !.life = 0]>>,
             g |-> [g EXCEPT ![c] = [MkCell("CRYSTAL") EXCEPT !.etherStorage = 1 + Cardinality(nb)]],
             ch |-> TRUE]
     ELSE [ps |-> ps, out |-> <<[moved1 EXCEPT !.life = 0]>>,
           g |-> [g EXCEPT ![c] = MkCell(EtherRuleTo(ct))], ch |-> TRUE]

\* thunderBehavior: zapRules and AFFECTED_BY_EXPLOSION
ZapNames == {"PLANT", "OIL", "PEAT", "FERTILE_SOIL", "SOIL"}
AffectedByExplosion ==
  {"SOIL", "SAND", "WATER", "MUD", "PEAT", "FERTILE_SOIL", "CLAY", "FIRE", "PLANT",
   "SEED", "OIL"}

\* coordinates in the order of createExplosion's loops (j outer, i inner)
RowMajor == [n \in 1 .. W * H |-> <<(n - 1) % W, (n - 1) \div W>>]

DistSq(c, cx, cy) == (c[1] - cx) * (c[1] - cx) + (c[2] - cy) * (c[2] - cy)

\* cells createExplosion can scatter: probability 1 - d/r is 1 at the centre,
\* 0 on the rim, and strictly between inside
SureCells(g, cx, cy, r) ==
  {c \in Coords : DistSq(c, cx, cy) = 0 /\ g[c].type \in AffectedByExplosion}
MaybeCellsWithRim(g, cx, cy, r) ==
  {c \in Coords : /\ DistSq(c, cx, cy) > 0
                  /\ DistSq(c, cx, cy) <= r * r
                  /\ g[c].type \in AffectedByExplosion}
MaybeCells(g, cx, cy, r) ==
  {c \in Coords : /\ DistSq(c, cx, cy) > 0
                  /\ DistSq(c, cx, cy) < r * r
                  /\ c[1] - cx \in (0 - r) .. r /\ c[2] - cy \in (0 - r) .. r
                  /\ g[c].type \in AffectedByExplosion}

RECURSIVE ScatterParticles(_, _, _, _)
\* the particles createExplosion pushes for the cells in S, ids in loop order
ScatterParticles(g, S, n, id) ==
  IF n > W * H THEN <<>>
  ELSE IF RowMajor[n] \in S
    THEN <<Particle(id, g[RowMajor[n]].type, RowMajor[n][1], RowMajor[n][2], ExplosionLife)>>
         \o ScatterParticles(g, S, n + 1, id + 1)
  ELSE ScatterParticles(g, S, n + 1, id)

\* createExplosion with the set S of cells whose draw succeeded
createExplosion(g, S, id) ==
  [g |-> [c \in Coords |-> IF c \in S THEN EmptyCell ELSE g[c]],
   sp |-> ScatterParticles(g, S, 1, id),
   id |-> id + Cardinality(S)]

ExplosionSets(g, cx, cy, r) ==
  {SureCells(g, cx, cy, r) \cup M : M \in SUBSET MaybeCells(g, cx, cy, r)}

\* cells a THUNDER particle over (x, y) can be over after its position
\* update: vx is clamped to [-2, 2]; vy starts in [2, 4) at the cloud, only
\* grows (gravity) and is clamped to 4, so the particle falls 2 to 4 rows
ThunderTargets(x, y) ==
  {<<x + i, y + j>> : i \in (0 - 2) .. 2, j \in 2 .. 4}

\* fireParticleBehavior.ts: fireTransformationRules
FireRuleFrom == {"SOIL", "CLAY", "STONE", "PLANT", "OIL", "PEAT", "FERTILE_SOIL", "SAND"}
FireRuleTo(t) ==
  CASE t = "SOIL" -> "SAND"
    [] t = "CLAY" -> "STONE"
    [] t = "STONE" -> "MAGMA"
    [] t = "SAND" -> "MAGMA"
    [] OTHER -> "FIRE"
FireLives == {80, 119}

\* rank of a neighbour in the loops "for j, for i"
LoopRank(c) == c[2] * W + c[1]
FirstInLoop(S) == CHOOSE c \in S : \A e \in S : LoopRank(c) <= LoopRank(e)

\* neighbours the crystal scan of step 1a looks at: the scan stops after the
\* first row when the particle's life is already used up
CrystalScan(g, c, life) ==
  {n \in Moore(c[1], c[2]) : g[n].type = "CRYSTAL" /\ (life > 0 \/ n[2] = c[2] - 1)}

WaterNear(g, c) ==
  \E n \in Moore(c[1], c[2]) \cup {c} : g[n].type = "WATER"

FlammableNeighbours(g, c) == {n \in Moore(c[1], c[2]) : g[n].type \in FireRuleFrom}

\* the cell a fire rule turns a cell of type t into
Burnt(t) == IF FireRuleTo(t) = "FIRE" THEN EmptyCell ELSE MkCell(FireRuleTo(t))

FireDraws == [spread : BOOLEAN, burn : BOOLEAN, life : FireLives]

\* FreshFire applying the neighbour's offset from c a second time
FreshFirePastTarget(id, c, tg, life) ==
  Particle(id, "FIRE", tg[1] + (tg[1] - c[1]), tg[2] + (tg[2] - c[2]), life)

\* the FIRE particle that the fire at c spawns over its neighbour tg
FreshFire(id, c, tg, life) == Particle(id, "FIRE", tg[1], tg[2], life)

\* handleFireParticles, the map callback for the FIRE particle p; tg is the
\* neighbour the random pick selects when there is one to pick:
\* [out |-> <<particle>> or <<>>, new |-> spawned, g |-> grid, ch, id]
FireStepResult(p, g, id, d, tg) ==
  LET c == <<p.x, p.y>>
      life == p.life - 1
      cr == CrystalScan(g, c, life)
      g2 == IF g[c].type \in FireRuleFrom THEN [g EXCEPT ![c] = Burnt(g[c].type)] ELSE g
      fresh == <<FreshFire(id, c, tg, d.life)>>
  IN IF cr # {}
       THEN [out |-> <<>>, new |-> <<>>, g |-> [g EXCEPT ![FirstInLoop(cr)] = MkCell("RUBY")],
             ch |-> TRUE, id |-> id]
     ELSE IF life <= 0
       THEN [out |-> <<>>, new |-> <<>>, g |-> g, ch |-> FALSE, id |-> id]
     ELSE IF WaterNear(g, c)
       THEN IF FlammableNeighbours(g2, c) # {} /\ d.spread
              THEN [out |-> <<>>, new |-> fresh, g |-> g2,
                    ch |-> g[c].type \in FireRuleFrom, id |-> id + 1]
              ELSE [out |-> <<>>, new |-> <<>>, g |-> g2,
                    ch |-> g[c].type \in FireRuleFrom, id |-> id]
     ELSE IF d.burn /\ FlammableNeighbours(g, c) # {}
       THEN IF FireRuleTo(g[tg].type) = "FIRE"
              THEN [out |-> <<[p EXCEPT !.life = life]>>, new |-> fresh,
                    g |-> [g EXCEPT ![tg] = EmptyCell], ch |-> TRUE, id |-> id + 1]
              ELSE [out |-> <<[p EXCEPT !.life = life]>>, new |-> <<>>,
                    g |-> [g EXCEPT ![tg] = MkCell(FireRuleTo(g[tg].type))],
                    ch |-> TRUE, id |-> id]
     ELSE [out |-> <<[p EXCEPT !.life = life]>>, new |-> <<>>, g |-> g, ch |-> FALSE, id |-> id]

\* targets of the random pick in FireStepResult
FirePicks(p, g) ==
  LET c == <<p.x, p.y>>
      g2 == IF g[c].type \in FireRuleFrom THEN [g EXCEPT ![c] = Burnt(g[c].type)] ELSE g
      S == IF WaterNear(g, c) THEN FlammableNeighbours(g2, c) ELSE FlammableNeighbours(g, c)
  IN IF S = {} THEN {c} ELSE S

\* ------------------------------------------------------------------------
\* The store subscriber of GameScene.create, as a function of the store
\* state it is notified with
\* ------------------------------------------------------------------------
SubscriberGrids(src, sg, gs) == IF src # "simulation" THEN [i \in {0, 1} |-> sg] ELSE gs
SubscriberLastMoves(src, sl, ls) == IF src # "simulation" THEN [i \in {0, 1} |-> sl] ELSE ls

tickVars == <<k, moved, spawned, written, touched, staleReads, localNextId, plist, pout, pnew,
              pgrid, gridChanged, scattered>>

\* ------------------------------------------------------------------------
\* Stats.  The store's stats object has one key per element of the registry
\* plus ETHER and THUNDER.
\* ------------------------------------------------------------------------
StatKeys == ElementNames \cup {"ETHER", "THUNDER"}
ZeroStats == [key \in StatKeys |-> 0]

RECURSIVE CountParticles(_, _, _)
\* the particles of ps[n ..] whose type is key
CountParticles(ps, n, key) ==
  IF n > Len(ps) THEN 0
  ELSE (IF ps[n].type = key THEN 1 ELSE 0) + CountParticles(ps, n + 1, key)

\* calculateStats adding to the counts it finds instead of resetting them
calculateStatsNoReset(old, g, ps) ==
  [key \in DOMAIN old |->
     old[key]
     + (IF key # "EMPTY" THEN Cardinality({c \in Coords : g[c].type = key}) ELSE 0)
     + CountParticles(ps, 1, key)]

\* calculateStats: every key of the stats object is reset to 0, then each
\* cell whose type is a key other than EMPTY and each particle whose type is
\* a key counts 1
calculateStats(old, g, ps) ==
  [key \in DOMAIN old |->
     (IF key # "EMPTY" THEN Cardinality({c \in Coords : g[c].type = key}) ELSE 0)
     + CountParticles(ps, 1, key)]

\* ------------------------------------------------------------------------
\* Initial states: the world after initializeGrid / randomizeGrid
\* (updateSource = "ui"), or a world that has been running
\* ------------------------------------------------------------------------
Terrains ==
  {AllEmpty,
   [c \in Coords |-> IF c = <<1, H - 2>> THEN MkCell("SAND")
                     ELSE IF c = <<1, H - 1>> THEN MkCell("WATER") ELSE EmptyCell],
   [c \in Coords |-> IF c = <<0, H - 1>> THEN MkCell("CRYSTAL")
                     ELSE IF c = <<1, H - 2>> THEN MkCell("OIL") ELSE EmptyCell]}

AgedCloud ==
  [MkCell("CLOUD") EXCEPT !.rainCounter = 80, !.rainThreshold = 80,
                          !.chargeThreshold = 600, !.decayCounter = 90]

\* the grid holding the cells of f and EMPTY elsewhere
GridOf(f) == [c \in Coords |-> IF c \in DOMAIN f THEN f[c] ELSE EmptyCell]

ChargedCloud ==
  [MkCell("CLOUD") EXCEPT !.rainThreshold = 80, !.chargeCounter = 599,
                          !.chargeThreshold = 600]

\* the bottom row and the right column; a scene is a world that has been
\* running: front grid, particle list and frame count
Bottom == H - 1
Right == W - 1

SceneList ==
  << [g |-> GridOf(<<1, Bottom - 1>> :> MkCell("SAND") @@ <<1, Bottom>> :> MkCell("WATER")
                   @@ <<0, Bottom>> :> MkCell("STONE")),
      ps |-> <<>>, fc |-> 0, storing |-> FALSE],
     [g |-> GridOf(<<1, Bottom - 2>> :> MkCell("WATER") @@ <<1, Bottom - 1>> :> MkCell("SAND")
                   @@ <<0, Bottom>> :> MkCell("WATER") @@ <<1, Bottom>> :> MkCell("STONE")),
      ps |-> <<>>, fc |-> 0, storing |-> FALSE],
     [g |-> GridOf(<<0, Bottom - 1>> :> MkCell("SAND") @@ <<0, Bottom>> :> MkCell("SAND")
                   @@ <<1, Bottom - 1>> :> MkCell("SAND") @@ <<1, Bottom>> :> MkCell("WATER")),
      ps |-> <<>>, fc |-> 0, storing |-> FALSE],
     [g |-> GridOf(<<Right, Bottom - 1>> :> MkCell("WATER")
                   @@ <<Right, Bottom>> :> [MkCell("SOIL") EXCEPT !.counter = 8]),
      ps |-> <<>>, fc |-> 0, storing |-> FALSE],
     [g |-> GridOf(<<0, Bottom - 1>> :> MkCell("CRYSTAL")), ps |-> <<>>, fc |-> 0, storing |-> FALSE],
     [g |-> GridOf(<<0, Bottom>> :> MkCell("CRYSTAL") @@ <<Right, Bottom>> :> MkCell("OIL")),
      ps |-> <<>>, fc |-> 1, storing |-> FALSE],
     [g |-> GridOf(<<Right - 1, 0>> :> ChargedCloud @@ <<Right - 2, 0>> :> MkCell("STONE")
                   @@ <<Right, 0>> :> MkCell("STONE")
                   @@ <<Right - 2, Bottom>> :> MkCell("STONE")
                   @@ <<Right - 1, Bottom>> :> MkCell("SOIL")
                   @@ <<Right, Bottom>> :> MkCell("STONE")),
      ps |-> <<>>, fc |-> 0, storing |-> FALSE],
     [g |-> GridOf(<<1, 1>> :> AgedCloud), ps |-> <<>>, fc |-> 0, storing |-> FALSE],
     [g |-> GridOf(<<1, Bottom>> :> MkCell("SAND")),
      ps |-> <<Particle(0, "ETHER", 1, Bottom, 2), Particle(1, "ETHER", 0, Bottom, 2)>>,
      fc |-> 0, storing |-> FALSE],
     [g |-> GridOf(<<1, Bottom>> :> MkCell("OIL") @@ <<2, Bottom>> :> MkCell("STONE")),
      ps |-> <<Particle(0, "FIRE", 0, Bottom, 2)>>, fc |-> 0, storing |-> FALSE],
     [g |-> [c \in Coords |-> IF c[2] >= Bottom - 2 THEN MkCell("WATER") ELSE EmptyCell],
      ps |-> <<Particle(0, "THUNDER", 1, Bottom - 3, ThunderLife - 1)>>, fc |-> MaxTicks - 1, storing |-> FALSE],
     [g |-> GridOf(<<1, 1>> :> [AgedCloud EXCEPT !.decayCounter = DecayThreshold - 1]),
      ps |-> <<>>, fc |-> 1, storing |-> FALSE],
     [g |-> GridOf(<<1, 0>> :> MkCell("WATER")
                   @@ <<1, 1>> :> [AgedCloud EXCEPT !.rainCounter = 0, !.decayCounter = 0]
                   @@ <<0, 0>> :> MkCell("STONE") @@ <<2, 0>> :> MkCell("STONE")
                   @@ <<0, 1>> :> MkCell("STONE") @@ <<2, 1>> :> MkCell("STONE")),
      ps |-> <<>>, fc |-> 1, storing |-> FALSE],
     [g |-> GridOf(<<1, Bottom - 1>> :> MkCell("SAND") @@ <<1, Bottom>> :> MkCell("OIL")
                   @@ <<0, Bottom>> :> MkCell("STONE") @@ <<2, Bottom>> :> MkCell("STONE")),
      ps |-> <<>>, fc |-> MaxTicks - 1, storing |-> FALSE],
     [g |-> GridOf(<<0, Bottom>> :> MkCell("WATER") @@ <<1, Bottom>> :> MkCell("SOIL")
                   @@ <<2, Bottom>> :> MkCell("STONE")),
      ps |-> <<Particle(0, "FIRE", 1, Bottom, 3)>>, fc |-> MaxTicks - 1, storing |-> FALSE],
     [g |-> GridOf(<<1, Bottom>> :> [MkCell("PLANT") EXCEPT !.plantMode = "stem",
                                                             !.counter = GROWTH_THRESHOLD - 1]
                   @@ <<1, Bottom - 1>> :> MkCell("STONE")),
      ps |-> <<>>, fc |-> MaxTicks - 1, storing |-> FALSE],
     [g |-> GridOf(<<1, Bottom - 1>> :> [MkCell("CRYSTAL") EXCEPT !.etherStorage = 3]),
      ps |-> <<>>, fc |-> MaxTicks - 1, storing |-> TRUE],
     [g |-> GridOf(<<0, Bottom - 1>> :> MkCell("CRYSTAL")), ps |-> <<>>, fc |-> MaxTicks - 1,
      storing |-> TRUE],
     [g |-> GridOf(<<0, Bottom>> :> [MkCell("CRYSTAL") EXCEPT !.etherStorage = 1]
                   @@ <<1, Bottom>> :> MkCell("STONE")),
      ps |-> <<>>, fc |-> MaxTicks - 1, storing |-> TRUE],
     [g |-> GridOf(<<0, Bottom>> :> [MkCell("SOIL") EXCEPT !.counter = 9]
                   @@ <<1, Bottom>> :> MkCell("WATER")
                   @@ <<2, Bottom>> :> [MkCell("SOIL") EXCEPT !.counter = 9]
                   @@ <<0, Bottom - 1>> :> MkCell("STONE")
                   @@ <<1, Bottom - 1>> :> MkCell("WATER")
                   @@ <<2, Bottom - 1>> :> MkCell("STONE")
                   @@ <<1, Bottom - 2>> :> MkCell("STONE")),
      ps |-> <<>>, fc |-> MaxTicks - 1, storing |-> FALSE],
     [g |-> GridOf(<<0, Bottom>> :> MkCell("STONE")
                   @@ <<1, Bottom>> :> [MkCell("MUD") EXCEPT !.counter = 1]
                   @@ <<2, Bottom>> :> MkCell("STONE")),
      ps |-> <<>>, fc |-> MaxTicks - 1, storing |-> FALSE],
     [g |-> GridOf(<<1, Bottom - 1>> :> [MkCell("PLANT") EXCEPT !.plantMode = "stem"]
                   @@ <<0, Bottom>> :> MkCell("WATER")),
      ps |-> <<>>, fc |-> 0, storing |-> FALSE],
     [g |-> GridOf(<<1, Bottom - 1>> :> [MkCell("PLANT") EXCEPT
                                           !.plantMode = "withered",
                                           !.oilCounter = OIL_THRESHOLD - 1]
                   @@ <<0, Bottom>> :> [MkCell("PLANT") EXCEPT
                                          !.plantMode = "stem",
                                          !.decayCounter = DECAY_THRESHOLD - 1]),
      ps |-> <<>>, fc |-> 0, storing |-> FALSE],
     [g |-> GridOf(<<1, 0>> :> MkCell("WATER")
                   @@ <<1, 1>> :> [AgedCloud EXCEPT !.rainCounter = 0, !.decayCounter = 5]
                   @@ <<0, 0>> :> MkCell("STONE") @@ <<2, 0>> :> MkCell("STONE")
                   @@ <<0, 1>> :> MkCell("STONE") @@ <<2, 1>> :> MkCell("STONE")
                   @@ <<1, 3>> :> [AgedCloud EXCEPT !.decayCounter =
                                     DecayThreshold - 1 + RainDecay]),
      ps |-> <<>>, fc |-> MaxTicks - 1, storing |-> FALSE],
     [g |-> GridOf(<<0, Bottom>> :> MkCell("SAND")
                   @@ <<1, Bottom>> :> [MkCell("SOIL") EXCEPT !.counter = 3]
                   @@ <<2, Bottom>> :> MkCell("STONE")
                   @@ <<2, Bottom - 1>> :> [MkCell("SOIL") EXCEPT !.counter = 5]),
      ps |-> <<Particle(0, "ETHER", 0, Bottom, 2),
               Particle(1, "THUNDER", 1, Bottom - 2, ThunderLife - 1),
               Particle(2, "FIRE", 2, Bottom - 2, 3)>>,
      fc |-> MaxTicks - 1, storing |-> FALSE] >>

Scenes == {SceneList[i] : i \in 1 .. Len(SceneList)}

\* no particle pass has returned yet
NoResults ==
  [etherGrid |-> AllEmpty, etherChanged |-> FALSE, thunderGrid |-> AllEmpty,
   thunderChanged |-> FALSE, fireChanged |-> FALSE]

InitCommon ==
  /\ lastMoveGrids = [i \in {0, 1} |-> AllNone]
  /\ storeLastMove = AllNone
  /\ pc = "idle"
  /\ k = 0
  /\ moved = {}
  /\ spawned = <<>>
  /\ written = {}
  /\ touched = {}
  /\ staleReads = {}
  /\ localNextId = 0
  /\ plist = <<>>
  /\ pout = <<>>
  /\ pnew = <<>>
  /\ pgrid = AllEmpty
  /\ gridChanged = FALSE
  /\ scattered = <<>>
  /\ produced = AllEmpty
  /\ ticked = FALSE
  /\ preGrid = AllEmpty
  /\ preBack = AllEmpty
  /\ preParticles = <<>>
  /\ placed = 0
  /\ lastPlaced = <<>>
  /\ pointer = <<>>
  /\ scanLog = <<>>
  /\ dirs = <<>>
  /\ impact = <<>>
  /\ resets = 0
  /\ passResults = NoResults
  /\ cloudsDecayed = {}
  /\ ruleLog = <<>>
  /\ lastReset = <<>>
  /\ exits = <<>>

\* both registries have been loaded
InitLoaded ==
  /\ elementsLoad = "loaded"
  /\ rulesLoad = "loaded"
  /\ transformationRules = loadRules(RulesJson).transformationRules
  /\ particleInteractionRules = loadRules(RulesJson).particleInteractionRules

InitFresh ==
  /\ InitCommon
  /\ InitLoaded
  /\ storing = FALSE
  /\ activeBufferIndex = 0
  /\ frameCount = 0
  /\ \E t \in Terrains :
       /\ grids = [i \in {0, 1} |-> t]
       /\ storeGrid = t
  /\ particles = <<>>
  /\ storeParticles = <<>>
  /\ nextParticleId = 0
  /\ born = <<>>
  /\ updateSource = "ui"
  /\ horizon = MaxTicks
  /\ stats = ZeroStats

\* a running world out of S, followed for n ticks
InitWorld(S, n) ==
  /\ InitCommon
  /\ InitLoaded
  /\ horizon = n
  /\ storeGrid = AllEmpty
  /\ \E s \in S :
       /\ grids = [i \in {0, 1} |-> s.g]
       /\ frameCount = s.fc
       /\ activeBufferIndex = s.fc % 2
       /\ particles = s.ps
       /\ storeParticles = s.ps
       /\ nextParticleId = Len(s.ps)
       /\ born = [i \in 1 .. Len(s.ps) |-> s.ps[i].id]
       /\ stats = calculateStats(ZeroStats, s.g, s.ps)
       /\ storing = s.storing
  /\ updateSource = "simulation"

InitScene(S) == InitWorld(S, MaxTicks)

InitRunning == InitScene(Scenes)

Init == InitFresh

\* ------------------------------------------------------------------------
\* GameScene.update: setFps (a store notification), then runSimulation when
\* the simulation interval has elapsed.  The entry into simulateWorld clears
\* the locals of the tick.  runSimulation returns at once while the grids
\* are [], which they are until loadElements has run initializeGrid.
\* ------------------------------------------------------------------------
Update ==
  /\ pc = "idle"
  /\ \E run \in BOOLEAN :
       LET gs == SubscriberGrids(updateSource, storeGrid, grids)
           ls == SubscriberLastMoves(updateSource, storeLastMove, lastMoveGrids)
       IN /\ run => (frameCount < horizon /\ elementsLoad = "loaded")
          /\ grids' = gs
          /\ lastMoveGrids' = ls
          /\ particles' = storeParticles
          /\ IF run
               THEN /\ pc' = "pass1"
                    /\ k' = 0
                    /\ moved' = {}
                    /\ spawned' = <<>>
                    /\ written' = {}
                    /\ touched' = {}
                    /\ staleReads' = {}
                    /\ scattered' = <<>>
                    /\ preGrid' = gs[activeBufferIndex]
                    /\ preBack' = gs[1 - activeBufferIndex]
                    /\ preParticles' = storeParticles
                    /\ produced' = AllEmpty
                    /\ ticked' = FALSE
                    /\ scanLog' = <<>>
                    /\ cloudsDecayed' = {}
                    /\ dirs' = Append(dirs, scanRight)
                    /\ impact' = <<>>
                    /\ exits' = <<>>
                    /\ UNCHANGED <<localNextId, plist, pout, pnew, pgrid, gridChanged>>
               ELSE /\ UNCHANGED <<pc, tickVars, preGrid, preBack, preParticles, produced, ticked,
                                   scanLog, cloudsDecayed, dirs, impact, exits>>
  /\ UNCHANGED <<activeBufferIndex, frameCount, storeGrid, storeLastMove, storeParticles,
                 nextParticleId, updateSource, born, placed, lastPlaced, pointer, resets,
                 horizon, stats, passResults, ruleLog, storing, loadVars, lastReset>>

\* the behaviour result r is the decay of the CLOUD at c: the cloud's own
\* coordinate is the only one written, and it is written EMPTY
CloudGone(rg, mv, c, r) ==
  /\ c \notin mv
  /\ rg[c].type = "CLOUD"
  /\ r.t = {c}
  /\ r.g[c].type = "EMPTY"

\* simulateWorld, Pass 1: one iteration of the scan loops
Pass1Step ==
  /\ pc = "pass1"
  /\ LET x == ScanX(k)
         y == ScanY(k)
         c == <<x, y>>
         rg == grids[readIdx]
         wg == grids[writeIdx]
         rl == lastMoveGrids[readIdx]
         wl == lastMoveGrids[writeIdx]
     IN \E r \in (IF c \in moved THEN {Res(wg, wl, moved, {})}
                  ELSE IF rg[c].type = "EMPTY"
                    THEN {Res([wg EXCEPT ![c] = EmptyCell], wl, moved, {c})}
                  ELSE Behave(rg, rl, wg, wl, moved, x, y, scanRight)) :
          /\ grids' = [grids EXCEPT ![writeIdx] = r.g]
          /\ lastMoveGrids' = [lastMoveGrids EXCEPT ![writeIdx] = r.l]
          /\ moved' = r.m
          /\ touched' = r.t
          /\ staleReads' = r.rd \ written
          /\ written' = written \cup r.t
          /\ spawned' = spawned \o r.p
          /\ scanLog' = Append(scanLog, c)
          /\ cloudsDecayed' = IF CloudGone(rg, moved, c, r) THEN cloudsDecayed \cup {c}
                              ELSE cloudsDecayed
  /\ k' = IF k + 1 = W * H THEN 0 ELSE k + 1
  /\ pc' = IF k + 1 = W * H THEN "pass2" ELSE "pass1"
  /\ UNCHANGED <<activeBufferIndex, particles, frameCount, storeGrid, storeLastMove,
                 storeParticles, nextParticleId, updateSource, localNextId, plist, pout,
                 pnew, pgrid, gridChanged, scattered, produced, born, ticked, preGrid,
                 preBack, preParticles, placed, lastPlaced, pointer, dirs, impact, resets, horizon, stats, passResults, ruleLog, storing, loadVars, lastReset, exits>>

RECURSIVE Pass2From(_, _, _, _, _, _)
\* simulateWorld, Pass 2 from scan position n on: the set of
\* [g |-> write grid, sp |-> spawnedParticles, log |-> the pass's log] the
\* loops can end with; whatever handleTransformations returns is truthy and
\* is pushed
Pass2From(n, g, sp, right, storeId, log) ==
  IF n = W * H THEN {[g |-> g, sp |-> sp, log |-> log]}
  ELSE LET x == IF right THEN n % W ELSE W - 1 - (n % W)
           y == H - 1 - (n \div W)
           step == {handleTransformations(g, x, y, storeId, d) : d \in TransformDraws}
       IN UNION {Pass2From(n + 1, r.g, Append(sp, r.ret), right, storeId, log \o r.ev) :
                   r \in step}

\* simulateWorld, Pass 2 (transformations on the write buffer)
Pass2 ==
  /\ pc = "pass2"
  /\ \E r \in Pass2From(0, grids[writeIdx], spawned, scanRight, nextParticleId, <<>>) :
       /\ grids' = [grids EXCEPT ![writeIdx] = r.g]
       /\ spawned' = r.sp
       /\ ruleLog' = r.log
  /\ pc' = "plant"
  /\ touched' = {}
  /\ staleReads' = {}
  /\ moved' = {}
  /\ written' = {}
  /\ UNCHANGED <<lastMoveGrids, activeBufferIndex, particles, frameCount, storeGrid,
                 storeLastMove, storeParticles, nextParticleId, updateSource, k,
                 localNextId, plist, pout, pnew, pgrid, gridChanged,
                 scattered, produced, born, ticked, preGrid, preBack, preParticles, placed, lastPlaced, pointer, scanLog, dirs, impact,
                 resets, horizon, stats, passResults, cloudsDecayed, storing, loadVars, lastReset, exits>>

\* ------------------------------------------------------------------------
\* Pass 2.5: plant growth (plantGrowthBehavior.ts), run in place on the
\* write buffer
\* ------------------------------------------------------------------------
\* n > limit * (0.8 + Math.random() * 0.4) can succeed, and can fail
CanCross(n, limit) == 10 * n > 8 * limit
CanStay(n, limit) == 10 * n < 12 * limit

\* a. Grow upwards, after a successful STEM_GROW_CHANCE draw
StemUp(g, x, y) ==
  IF y - 1 >= 0 /\ g[<<x, y - 1>>].type # "PLANT"
    THEN {[g EXCEPT ![<<x, y - 1>>] = [MkCell("PLANT") EXCEPT !.plantMode = "stem"]]}
    ELSE {g}

\* b. leaves and flowers on the side dir of the stem at (x, y)
StemSide(g, x, y, dir) ==
  IF x + dir >= 0 /\ x + dir < W /\ g[<<x + dir, y>>].type = "EMPTY"
    THEN {g} \cup {[g EXCEPT ![<<x + dir, y>>] = [MkCell("PLANT") EXCEPT !.plantMode = m]] :
                     m \in {"leaf", "flower"}}
    ELSE {g}

\* lateral spread of the ground cover at (x, y) to the side dir
GroundCover(g, x, y, dir) ==
  IF /\ x + dir >= 0 /\ x + dir < W /\ g[<<x + dir, y>>].type = "EMPTY"
     /\ y + 1 < H /\ g[<<x + dir, y + 1>>].type # "EMPTY"
     /\ ~ IsStatic(g[<<x + dir, y + 1>>].type)
    THEN {g, [g EXCEPT ![<<x + dir, y>>] =
                [MkCell("PLANT") EXCEPT !.plantMode = "ground_cover"]]}
    ELSE {g}

\* PlantCell writing the decay counter it read (the tick is not counted)
PlantCellNotCounting(g, x, y) ==
  LET c == <<x, y>>
      cell == g[c]
      oil == cell.oilCounter + 1
      decay == cell.decayCounter
      growth == cell.counter + 1
      aged == [g EXCEPT ![c].decayCounter = decay]
      reset == [aged EXCEPT ![c].counter = 0]
  IN IF cell.type # "PLANT" THEN {g}
     ELSE IF cell.plantMode = "withered"
       THEN (IF CanCross(oil, OIL_THRESHOLD) THEN {[g EXCEPT ![c] = MkCell("OIL")]} ELSE {})
            \cup
            (IF CanStay(oil, OIL_THRESHOLD) THEN {[g EXCEPT ![c].oilCounter = oil]} ELSE {})
     ELSE IF cell.plantMode \notin {"stem", "ground_cover"} THEN {g}
     ELSE (IF CanCross(decay, DECAY_THRESHOLD)
             THEN {[g EXCEPT ![c] = [MkCell("PLANT") EXCEPT !.plantMode = "withered"]]}
             ELSE {})
          \cup
          (IF ~ CanStay(decay, DECAY_THRESHOLD) THEN {}
           ELSE IF growth < GROWTH_THRESHOLD THEN {[aged EXCEPT ![c].counter = growth]}
           ELSE IF cell.plantMode = "stem"
             THEN UNION {UNION {StemSide(g2, x, y, 1) : g2 \in StemSide(g1, x, y, 0 - 1)} :
                           g1 \in {reset} \cup StemUp(reset, x, y)}
           ELSE GroundCover(reset, x, y, 0 - 1) \cup GroundCover(reset, x, y, 1))

\* the body of handlePlantGrowth's loops for the cell at (x, y): every grid
\* it can leave
PlantCell(g, x, y) ==
  LET c == <<x, y>>
      cell == g[c]
      oil == cell.oilCounter + 1
      decay == cell.decayCounter + 1
      growth == cell.counter + 1
      aged == [g EXCEPT ![c].decayCounter = decay]
      reset == [aged EXCEPT ![c].counter = 0]
  IN IF cell.type # "PLANT" THEN {g}
     ELSE IF cell.plantMode = "withered"
       THEN (IF CanCross(oil, OIL_THRESHOLD) THEN {[g EXCEPT ![c] = MkCell("OIL")]} ELSE {})
            \cup
            (IF CanStay(oil, OIL_THRESHOLD) THEN {[g EXCEPT ![c].oilCounter = oil]} ELSE {})
     ELSE IF cell.plantMode \notin {"stem", "ground_cover"} THEN {g}
     ELSE (IF CanCross(decay, DECAY_THRESHOLD)
             THEN {[g EXCEPT ![c] = [MkCell("PLANT") EXCEPT !.plantMode = "withered"]]}
             ELSE {})
          \cup
          (IF ~ CanStay(decay, DECAY_THRESHOLD) THEN {}
           ELSE IF growth < GROWTH_THRESHOLD THEN {[aged EXCEPT ![c].counter = growth]}
           ELSE IF cell.plantMode = "stem"
             THEN UNION {UNION {StemSide(g2, x, y, 1) : g2 \in StemSide(g1, x, y, 0 - 1)} :
                           g1 \in {reset} \cup StemUp(reset, x, y)}
           ELSE GroundCover(reset, x, y, 0 - 1) \cup GroundCover(reset, x, y, 1))

RECURSIVE PlantFrom(_, _)
\* the nested scan of handlePlantGrowth from the n-th cell on (rows top
\* down, columns left to right), on the grid g it has produced so far
PlantFrom(n, g) ==
  IF n > W * H THEN {g}
  ELSE UNION {PlantFrom(n + 1, g1) : g1 \in PlantCell(g, RowMajor[n][1], RowMajor[n][2])}

\* handlePlantGrowth(writeGrid, writeGrid, ...)
handlePlantGrowth(g) == PlantFrom(1, g)

\* ids of the particles of ps that are particles (not result objects)
RECURSIVE RealIds(_)
RealIds(ps) ==
  IF ps = <<>> THEN <<>>
  ELSE IF Head(ps).type # "undefined" THEN <<Head(ps).id>> \o RealIds(Tail(ps))
  ELSE RealIds(Tail(ps))

\* simulateWorld, Pass 2.5 (handlePlantGrowth on the write buffer), the id
\* assignment of physics.ts 195-202 and the entry into handleEtherParticles
BeginParticles ==
  /\ pc = "plant"
  /\ LET withIds == AssignIds(spawned, nextParticleId)
     IN /\ spawned' = withIds
        /\ localNextId' = nextParticleId + Sentinels(spawned)
        /\ plist' = Living(particles \o withIds)
        /\ born' = born \o RealIds(withIds)
  /\ pout' = <<>>
  /\ pnew' = <<>>
  /\ k' = 1
  /\ \E g \in handlePlantGrowth(grids[writeIdx]) :
       /\ grids' = [grids EXCEPT ![writeIdx] = g]
       /\ pgrid' = g
  /\ gridChanged' = FALSE
  /\ pc' = "ether"
  /\ UNCHANGED <<lastMoveGrids, activeBufferIndex, particles, frameCount, storeGrid,
                 storeLastMove, storeParticles, nextParticleId, updateSource, moved,
                 written, touched, staleReads, scattered, produced, ticked, preGrid, preBack, preParticles,
                 placed, lastPlaced, pointer, scanLog, dirs, impact,
                 resets, horizon, stats, passResults, cloudsDecayed, ruleLog, storing, loadVars, lastReset, exits>>

\* handleEtherParticles: the map callback for plist[k]
EtherStep ==
  /\ pc = "ether"
  /\ k <= Len(plist)
  /\ \E c \in EtherTargets(plist[k].x, plist[k].y), roll \in BOOLEAN :
       LET r == EtherStepResult(plist, pgrid, k, c, roll)
       IN /\ plist' = r.ps
          /\ pout' = pout \o r.out
          /\ pgrid' = r.g
          /\ gridChanged' = (gridChanged \/ r.ch)
  /\ k' = k + 1
  /\ UNCHANGED <<grids, lastMoveGrids, activeBufferIndex, particles, frameCount, storeGrid,
                 storeLastMove, storeParticles, nextParticleId, updateSource, pc, moved,
                 spawned, written, touched, staleReads, localNextId, pnew, scattered, produced, born,
                 ticked, preGrid, preBack, preParticles, placed, lastPlaced, pointer, scanLog, dirs, impact,
                 resets, horizon, stats, passResults, cloudsDecayed, ruleLog, storing, loadVars, lastReset, exits>>

\* handleEtherParticles returns; handleThunderParticles filters the living
EtherDone ==
  /\ pc = "ether"
  /\ k > Len(plist)
  /\ pc' = "thunder"
  /\ plist' = Living(pout)
  /\ pout' = <<>>
  /\ k' = 1
  /\ passResults' = [passResults EXCEPT !.etherGrid = pgrid, !.etherChanged = gridChanged]
  /\ gridChanged' = FALSE
  /\ UNCHANGED <<grids, lastMoveGrids, activeBufferIndex, particles, frameCount, storeGrid,
                 storeLastMove, storeParticles, nextParticleId, updateSource, moved,
                 spawned, written, touched, staleReads, localNextId, pnew, pgrid,
                 scattered, produced, born, ticked, preGrid, preBack, preParticles, placed, lastPlaced, pointer, scanLog, dirs, impact,
                 resets, horizon, stats, cloudsDecayed, ruleLog, storing, loadVars, lastReset, exits>>

\* handleThunderParticles, the map callback for the particle p: the set of
\* [out |-> <<particle>> or <<>>, g |-> grid, sp |-> pushed to spawnedParticles,
\*  id |-> currentParticleId, ch |-> gridChanged, hit |-> <<cell, type>> of the
\*  explosion centre or <<>>, off |-> <<position outside the grid>> or <<>>]
\* a boundary that stops the particle at the wall and keeps it
ThunderBoundaryClamping(p, g, id, t) ==
  {[out |-> <<[p EXCEPT !.life = p.life - 1, !.x = Clamp(t[1], 0, W - 1),
                        !.y = Clamp(t[2], 0, H - 1)]>>,
    g |-> g, sp |-> <<>>, id |-> id, ch |-> FALSE, hit |-> <<>>, off |-> <<t>>]}

\* step 4, boundary collisions: the particle whose new position t is outside
\* the grid is dropped
ThunderBoundary(p, g, id, t) ==
  {[out |-> <<>>, g |-> g, sp |-> <<>>, id |-> id, ch |-> FALSE, hit |-> <<>>, off |-> <<t>>]}

ThunderResults(p, g, id) ==
  LET keep(q) == [out |-> <<q>>, g |-> g, sp |-> <<>>, id |-> id, ch |-> FALSE, hit |-> <<>>,
                  off |-> <<>>]
      gone == [out |-> <<>>, g |-> g, sp |-> <<>>, id |-> id, ch |-> FALSE, hit |-> <<>>,
               off |-> <<>>]
      boom(q, g1, cx, cy, radii) ==
        {LET e == createExplosion(g1, S, id)
         IN [out |-> q, g |-> e.g, sp |-> e.sp, id |-> e.id, ch |-> TRUE,
             hit |-> <<(<<cx, cy>>), g[<<cx, cy>>].type>>, off |-> <<>>] :
           S \in UNION {ExplosionSets(g1, cx, cy, r) : r \in radii}}
  IN IF p.type # "THUNDER" THEN {keep(p)}
     ELSE IF p.life - 1 <= 0 THEN {gone}
     ELSE UNION {
       IF ~InGrid(t[1], t[2]) THEN ThunderBoundary(p, g, id, t)
       ELSE LET q == [p EXCEPT !.life = p.life - 1, !.x = t[1], !.y = t[2]]
                ct == g[t].type
            IN IF ct = "WATER" THEN boom(<<>>, g, t[1], t[2], 1 .. 2)
               ELSE IF ct \in ZapNames /\ IsFlammable(ct)
                 THEN {keep(q)}
                      \cup boom(<<[q EXCEPT !.life = 0]>>, [g EXCEPT ![t] = MkCell("FIRE")],
                                t[1], t[2], 1 .. 3)
               ELSE {keep(q)} : t \in ThunderTargets(p.x, p.y)}

ThunderStep ==
  /\ pc = "thunder"
  /\ k <= Len(plist)
  /\ \E r \in ThunderResults(plist[k], pgrid, localNextId) :
       /\ pout' = pout \o r.out
       /\ pgrid' = r.g
       /\ spawned' = spawned \o r.sp
       /\ scattered' = scattered \o r.sp
       /\ localNextId' = r.id
       /\ gridChanged' = (gridChanged \/ r.ch)
       /\ impact' = IF r.hit # <<>> THEN r.hit \o <<plist[k].id>> ELSE impact
       /\ exits' = IF r.off # <<>> THEN Append(exits, [id |-> plist[k].id, at |-> r.off[1]])
                   ELSE exits
  /\ k' = k + 1
  /\ UNCHANGED <<grids, lastMoveGrids, activeBufferIndex, particles, frameCount, storeGrid,
                 storeLastMove, storeParticles, nextParticleId, updateSource, pc, moved,
                 written, touched, staleReads, plist, pnew, produced, born, ticked, preGrid,
                 preBack, preParticles, placed, lastPlaced, pointer, scanLog, dirs, resets,
                 horizon, stats, passResults, cloudsDecayed, ruleLog, storing, loadVars, lastReset>>

\* handleThunderParticles returns; handleFireParticles splits its input
ThunderDone ==
  /\ pc = "thunder"
  /\ k > Len(plist)
  /\ pc' = "fire"
  /\ plist' = OfType(pout, "FIRE", TRUE)
  /\ pout' = OfType(pout, "FIRE", FALSE)
  /\ pnew' = <<>>
  /\ k' = 1
  /\ passResults' = [passResults EXCEPT !.thunderGrid = pgrid,
                                        !.thunderChanged = gridChanged]
  /\ gridChanged' = FALSE
  /\ UNCHANGED <<grids, lastMoveGrids, activeBufferIndex, particles, frameCount, storeGrid,
                 storeLastMove, storeParticles, nextParticleId, updateSource, moved,
                 spawned, written, touched, staleReads, localNextId, pgrid, scattered,
                 produced, born, ticked, preGrid, preBack, preParticles, placed, lastPlaced, pointer, scanLog, dirs, impact,
                 resets, horizon, stats, cloudsDecayed, ruleLog, storing, loadVars, lastReset, exits>>

\* handleFireParticles: the map callback for plist[k]
FireStep ==
  /\ pc = "fire"
  /\ k <= Len(plist)
  /\ \E d \in FireDraws, tg \in FirePicks(plist[k], pgrid) :
       LET r == FireStepResult(plist[k], pgrid, localNextId, d, tg)
       IN /\ pout' = pout \o r.out
          /\ pnew' = pnew \o r.new
          /\ pgrid' = r.g
          /\ localNextId' = r.id
          /\ gridChanged' = (gridChanged \/ r.ch)
          /\ born' = born \o RealIds(r.new)
  /\ k' = k + 1
  /\ UNCHANGED <<grids, lastMoveGrids, activeBufferIndex, particles, frameCount, storeGrid,
                 storeLastMove, storeParticles, nextParticleId, updateSource, pc, moved,
                 spawned, written, touched, staleReads, plist, scattered, produced, ticked, preGrid,
                 preBack, preParticles, placed, lastPlaced, pointer, scanLog, dirs, impact,
                 resets, horizon, stats, passResults, cloudsDecayed, ruleLog, storing, loadVars, lastReset, exits>>

\* CopyBack taking over the type of a changed cell and keeping the data of
\* the cell it replaces
CopyBackTypeOnly(wg, fg, changed) ==
  IF changed
    THEN [c \in Coords |-> IF wg[c].type # fg[c].type
                             THEN [wg[c] EXCEPT !.type = fg[c].type] ELSE wg[c]]
    ELSE wg

\* the write buffer after the copy-back of physics.ts 236-248
CopyBack(wg, fg, changed) ==
  IF changed
    THEN [c \in Coords |-> IF wg[c].type # fg[c].type THEN fg[c] ELSE wg[c]]
    ELSE wg

\* physics.ts 237: the grid of the last pass that reports a change
finalGrid(res, fireGrid, fireChanged) ==
  IF fireChanged THEN fireGrid
  ELSE IF res.thunderChanged THEN res.thunderGrid
  ELSE res.etherGrid

\* handleFireParticles returns; the rest of simulateWorld (the setState of the
\* id counter, which notifies the subscriber, then the copy-back into the
\* array runSimulation handed in) and the rest of runSimulation
FinishTick ==
  /\ pc = "fire"
  /\ k > Len(plist)
  /\ LET out == pout \o pnew
         resync == updateSource # "simulation"
         final == CopyBack(grids[writeIdx], finalGrid(passResults, pgrid, gridChanged),
                           passResults.etherChanged \/ passResults.thunderChanged
                             \/ gridChanged)
     IN /\ nextParticleId' = localNextId
        /\ passResults' = [NoResults EXCEPT !.etherChanged = passResults.etherChanged,
                                           !.thunderChanged = passResults.thunderChanged,
                                           !.fireChanged = gridChanged]
        /\ produced' = final
        /\ grids' = IF resync THEN [i \in {0, 1} |-> storeGrid]
                    ELSE [grids EXCEPT ![writeIdx] = final]
        /\ lastMoveGrids' = IF resync THEN [i \in {0, 1} |-> storeLastMove]
                            ELSE lastMoveGrids
        /\ particles' = out
        /\ storeParticles' = out
        /\ stats' = calculateStats(stats,
                                   IF resync THEN storeGrid ELSE final, out)
  /\ activeBufferIndex' = writeIdx
  /\ frameCount' = frameCount + 1
  /\ updateSource' = "simulation"
  /\ storeGrid' = AllEmpty
  /\ storeLastMove' = AllNone
  /\ pc' = "idle"
  /\ ticked' = TRUE
  /\ k' = 0
  /\ UNCHANGED <<moved, touched, staleReads>>
  /\ plist' = <<>>
  /\ pout' = <<>>
  /\ pnew' = <<>>
  /\ pgrid' = AllEmpty
  /\ gridChanged' = FALSE
  /\ localNextId' = 0
  /\ lastPlaced' = <<>>
  /\ UNCHANGED <<spawned, written, scattered, born, preGrid, preBack, preParticles, placed,
                 pointer, scanLog, dirs, impact, resets, horizon, cloudsDecayed, ruleLog, storing, loadVars, lastReset, exits>>

\* elements the toolbar can hold (one of them missing from the registry) and
\* cells the pointer is pressed on (one of them outside the grid)
PlaceNames == {"SAND", "STONE", "UNKNOWN"}
PointerCells == {<<0, 0>>, <<1, H - 1>>, <<W, 0>>}

\* updateAtPointer writing the front buffer only
PlaceCellFrontOnly(gs, c, e) ==
  [gs EXCEPT ![activeBufferIndex] = [gs[activeBufferIndex] EXCEPT ![c] = MkCell(e)]]

\* updateAtPointer, lines 187-192: the new cell goes into both buffers
PlaceCell(gs, c, e) ==
  [i \in {0, 1} |-> [gs[i] EXCEPT ![c] = MkCell(e)]]

\* updateAtPointer's early returns: outside the grid, front cell not EMPTY,
\* element not in the registry
CanPlace(c, e) ==
  IF ~InGrid(c[1], c[2]) THEN FALSE
  ELSE IF grids[activeBufferIndex][c].type # "EMPTY" THEN FALSE
  ELSE e \in ElementNames

\* GameScene.updateAtPointer
Place ==
  /\ pc = "idle"
  /\ placed < MaxPlace
  /\ \E c \in PointerCells, e \in PlaceNames :
       /\ pointer' = <<c, e>>
       /\ IF CanPlace(c, e)
            THEN /\ grids' = PlaceCell(grids, c, e)
                 /\ lastPlaced' = <<c, e>>
            ELSE UNCHANGED <<grids, lastPlaced>>
  /\ placed' = placed + 1
  /\ ticked' = FALSE
  /\ UNCHANGED <<lastMoveGrids, activeBufferIndex, particles, frameCount, storeGrid,
                 storeLastMove, storeParticles, nextParticleId, updateSource, pc,
                 tickVars, produced, born, preGrid, preBack, preParticles, scanLog, dirs,
                 impact, resets, horizon, stats, passResults, cloudsDecayed, ruleLog, storing, loadVars, lastReset, exits>>

\* a reset that leaves the particle list as it is
ResetRestKeepingParticles ==
  /\ pc = "idle"
  /\ resets < MaxResets
  /\ storeLastMove' = AllNone
  /\ nextParticleId' = 0
  /\ updateSource' = "ui"
  /\ lastMoveGrids' = [i \in {0, 1} |-> AllNone]
  /\ particles' = storeParticles
  /\ born' = <<>>
  /\ ticked' = FALSE
  /\ resets' = resets + 1
  /\ lastPlaced' = <<>>
  /\ UNCHANGED <<activeBufferIndex, frameCount, pc, tickVars, produced, preGrid,
                 preBack, preParticles, placed, pointer, scanLog, dirs, impact,
                 horizon, passResults, cloudsDecayed, ruleLog, storing, loadVars, exits, storeParticles>>

\* what clearGrid / randomizeGrid leave besides the grid and the stats, and
\* the subscriber run of their set()
ResetRest ==
  /\ pc = "idle"
  /\ resets < MaxResets
  /\ elementsLoad = "loaded"
  /\ storeLastMove' = AllNone
  /\ storeParticles' = <<>>
  /\ nextParticleId' = 0
  /\ updateSource' = "ui"
  /\ lastMoveGrids' = [i \in {0, 1} |-> AllNone]
  /\ particles' = <<>>
  /\ born' = <<>>
  /\ ticked' = FALSE
  /\ resets' = resets + 1
  /\ lastPlaced' = <<>>
  /\ UNCHANGED <<activeBufferIndex, frameCount, pc, tickVars, produced, preGrid,
                 preBack, preParticles, placed, pointer, scanLog, dirs, impact,
                 horizon, passResults, cloudsDecayed, ruleLog, storing, loadVars, exits>>

\* the record of a reset call
ResetCall(kind, t) ==
  [kind |-> kind, grid |-> t, frame |-> frameCount,
   dirty |-> particles # <<>> /\ grids[activeBufferIndex] # t]

\* gameStore.clearGrid
ClearGrid ==
  /\ storeGrid' = AllEmpty
  /\ grids' = [i \in {0, 1} |-> AllEmpty]
  /\ stats' = ZeroStats
  /\ lastReset' = <<ResetCall("clear", AllEmpty)>>
  /\ ResetRest

\* gameStore.randomizeGrid: the generator counts every cell it writes
RandomizeGrid ==
  /\ \E t \in Terrains \ {AllEmpty} :
       /\ storeGrid' = t
       /\ grids' = [i \in {0, 1} |-> t]
       /\ stats' = calculateStats(ZeroStats, t, <<>>)
       /\ lastReset' = <<ResetCall("randomize", t)>>
  /\ ResetRest

Next ==
  \/ Update
  \/ Pass1Step
  \/ Pass2
  \/ BeginParticles
  \/ EtherStep
  \/ EtherDone
  \/ ThunderStep
  \/ ThunderDone
  \/ FireStep
  \/ FinishTick
  \/ Place
  \/ ClearGrid
  \/ RandomizeGrid

Spec == Init /\ [][Next]_vars

\* a world that has been running, ticking without user input
NextTick ==
  \/ Update
  \/ Pass1Step
  \/ Pass2
  \/ BeginParticles
  \/ EtherStep
  \/ EtherDone
  \/ ThunderStep
  \/ ThunderDone
  \/ FireStep
  \/ FinishTick

SpecWorld == InitRunning /\ [][NextTick]_vars

\* ------------------------------------------------------------------------
\* Properties
\* ------------------------------------------------------------------------
front == grids[activeBufferIndex]
AfterTick == pc = "idle" /\ ticked

\* number of cells of each non-EMPTY type
TypeCount(g) ==
  [t \in ElementNames \ {"EMPTY"} |-> Cardinality({c \in Coords : g[c].type = t})]

\* a world in which only granular motion acts: no cell with a rule, no
\* cloud, plant, oil or crystal, and no particle so far
GranularOnly(g) == \A c \in Coords : g[c].type \in {"EMPTY", "SAND", "WATER", "STONE"}

\* C1: in a world where only granular motion acts, the front buffer holds
\* the same number of cells of every non-EMPTY type after a tick as before it
C1_GranularConservation ==
  (AfterTick /\ GranularOnly(preGrid) /\ born = <<>>)
    => TypeCount(front) = TypeCount(preGrid)

\* a tick of a granular-only world has moved or swapped cells
C1_Witness ==
  /\ AfterTick
  /\ GranularOnly(preGrid)
  /\ born = <<>>
  /\ \E c \in Coords : preGrid[c].type = "SAND" /\ front[c].type = "WATER"

\* C2: when Pass 1 has ended, every coordinate of the write buffer has been
\* assigned during the pass
C2_AllWritten == (pc = "pass2") => written = Coords

\* C3: a Pass 1 step assigns no coordinate that an earlier step of the pass
\* has marked in the moved bitmap, and marks are never taken back
C3_OneMovePerCoordinate ==
  [][pc = "pass1" => (touched' \cap moved = {} /\ moved \subseteq moved')]_vars

\* the scan has reached a coordinate that an earlier mover has moved a
\* cell into
C3_Witness ==
  /\ pc = "pass1"
  /\ <<ScanX(k), ScanY(k)>> \in moved
  /\ grids[writeIdx][<<ScanX(k), ScanY(k)>>].type # "EMPTY"

\* C4: after every runSimulation the front buffer is the write buffer that
\* the passes of this tick produced
C4_FrontIsProduced == AfterTick => front = produced

\* C5: a placement made since the last tick is in both buffers when the
\* next tick starts
C5_PlacementSurvives ==
  (pc = "pass1" /\ k = 0 /\ lastPlaced # <<>>)
    => /\ preGrid[lastPlaced[1]].type = lastPlaced[2]
       /\ preBack[lastPlaced[1]].type = lastPlaced[2]

\* C6: the ids of the particles that entered the particle list grow
\* strictly in spawn order
C6_IdsMonotonic ==
  \A i, j \in 1 .. Len(born) : i < j => born[i] < born[j]

\* particles of two spawn sites, a crystal's ETHER and an oil's FIRE, are in
\* the list after a tick
C6_Witness ==
  /\ AfterTick
  /\ \E i, j \in 1 .. Len(particles) :
       /\ particles[i].type = "ETHER"
       /\ particles[j].type = "FIRE"
       /\ particles[i].id # particles[j].id
  /\ Len(born) >= 2

\* C7: a coordinate whose front-buffer type differs before and after a tick
\* holds a cell with counter zero after the tick
C7_CounterZeroOnChange ==
  AfterTick => \A c \in Coords :
                 front[c].type # preGrid[c].type => front[c].counter = 0

\* C8: no Pass 1 behaviour reads a write-buffer coordinate that the pass
\* has not assigned yet
C8_NoStaleRead == staleReads = {}

\* C9: for every cell an explosion of the tick converted, exactly one
\* particle of that cell's type with life 100 and its id is in the list
\* the tick returns
C9_ScatterReturned ==
  AfterTick =>
    \A n \in 1 .. Len(scattered) :
      Cardinality({i \in 1 .. Len(particles) :
                     /\ particles[i].id = scattered[n].id
                     /\ particles[i].type = scattered[n].type
                     /\ particles[i].life = ExplosionLife}) = 1

\* C10: the output of each particle pass and the list the tick returns hold
\* no particle with life <= 0
C10_NoDeadParticles ==
  /\ (pc \in {"ether", "thunder"} /\ k > Len(plist))
       => \A i \in 1 .. Len(pout) : pout[i].life > 0
  /\ AfterTick => \A i \in 1 .. Len(particles) : particles[i].life > 0


\* C11: every particle that is in the list when a tick starts is, when the
\* tick ends, either gone from the list or in it with its life lower by
\* exactly one
C11_LifeDecrement ==
  AfterTick =>
    \A i \in 1 .. Len(preParticles) : \A j \in 1 .. Len(particles) :
      particles[j].id = preParticles[i].id => particles[j].life = preParticles[i].life - 1


\* the tick actions, and updateAtPointer between ticks, on worlds in which
\* only granular motion acts and that have run for one frame
PlaceScenes == {[SceneList[i] EXCEPT !.fc = 1] : i \in 1 .. 4}

InitPlace == InitScene(PlaceScenes)

\* updateAtPointer and the steps of a tick of a world without particles
NextPlace ==
  \/ Place
  \/ Update
  \/ Pass1Step
  \/ Pass2
  \/ BeginParticles
  \/ EtherDone
  \/ ThunderDone
  \/ FinishTick

SpecPlace == InitPlace /\ [][NextPlace]_vars

\* C12: a call of updateAtPointer with the front cell EMPTY, the element in
\* the registry and the coordinate inside the grid puts a cell of that
\* element at the coordinate in both buffers and changes no other coordinate;
\* any other call changes neither buffer; no call changes the particle list
C12_PlaceEffect ==
  [][placed' # placed =>
       LET c == pointer'[1]
           e == pointer'[2]
       IN /\ particles' = particles
          /\ IF c \in Coords /\ front[c].type = "EMPTY" /\ e \in ElementNames
               THEN \A i \in {0, 1} : \A d \in Coords :
                      grids'[i][d] = IF d = c THEN MkCell(e) ELSE grids[i][d]
               ELSE grids' = grids]_vars

\* a placement made while the two buffers differ, and a refused one
C12_Witness ==
  /\ lastPlaced # <<>>
  /\ pointer = lastPlaced
  /\ \E d \in Coords : d # pointer[1] /\ grids[0][d] # grids[1][d]

C12_WitnessRefused ==
  /\ pointer # <<>>
  /\ pointer # lastPlaced
  /\ pointer[2] = "SAND"
  /\ InGrid(pointer[1][1], pointer[1][2])


\* C13: the buffer swap and the frame count increment go together, once per
\* tick (the active buffer index follows the parity of the frame count), and
\* the fire pass, the last one, starts from every particle change of the
\* passes before it: the particles the thunder pass scattered are in its input
C13_PassesSeeEarlierChanges ==
  /\ activeBufferIndex = frameCount % 2
  /\ (pc = "fire" /\ k = 1) =>
       \A n \in 1 .. Len(scattered) :
         \E i \in 1 .. Len(plist \o pout) : (plist \o pout)[i].id = scattered[n].id

\* C14: in Pass 1 the i-th visited coordinate lies in row H-1-((i-1) div W),
\* at column (i-1) mod W when frameCount is even and at W-1-((i-1) mod W)
\* when it is odd; every cell is visited once the pass is over; and any two
\* consecutive ticks scanned in opposite directions.
C14_ScanOrder ==
  /\ pc # "idle" =>
       \A i \in 1 .. Len(scanLog) :
         scanLog[i] = << IF frameCount % 2 = 0 THEN (i - 1) % W ELSE W - 1 - ((i - 1) % W),
                         H - 1 - ((i - 1) \div W) >>
  /\ pc \notin {"idle", "pass1"} => Len(scanLog) = W * H
  /\ \A i \in 1 .. Len(dirs) - 1 : dirs[i] # dirs[i + 1]

C14_Witness ==
  /\ pc = "pass2"
  /\ frameCount % 2 = 1
  /\ Len(dirs) = 2
  /\ scanLog[1] = <<W - 1, H - 1>>
  /\ scanLog[W * H] = <<0, 0>>

\* a tick whose only particle was one THUNDER, which exploded on a WATER cell
ThunderHitWater ==
  /\ AfterTick
  /\ Len(preParticles) = 1
  /\ preParticles[1].type = "THUNDER"
  /\ impact # <<>>
  /\ impact[2] = "WATER"

\* the particles of the list that were not in the list before the tick
NewParticles ==
  {i \in 1 .. Len(particles) :
     \A j \in 1 .. Len(preParticles) : particles[i].id # preParticles[j].id}

C15_WitnessOne ==
  /\ ThunderHitWater
  /\ Len(scattered) = 1

\* ------------------------------------------------------------------------
\* Settling worlds: a lone SOIL cell three rows above the floor of an
\* otherwise EMPTY world, and a column WATER / SAND / EMPTY between STONE
\* walls, followed for SettleTicks ticks
\* ------------------------------------------------------------------------
SettleTicks == 5

SoilScene ==
  [g |-> GridOf(<<1, Bottom - 2>> :> MkCell("SOIL")), ps |-> <<>>, fc |-> 0, storing |-> FALSE]

ColumnScene ==
  [g |-> [c \in Coords |->
            IF c = <<1, Bottom - 2>> THEN MkCell("WATER")
            ELSE IF c = <<1, Bottom - 1>> THEN MkCell("SAND")
            ELSE IF c[1] \in {0, 2} /\ c[2] >= Bottom - 2 THEN MkCell("STONE")
            ELSE EmptyCell],
   ps |-> <<>>, fc |-> 0, storing |-> FALSE]

InitSettle == InitWorld({SoilScene, ColumnScene}, SettleTicks)

\* the steps of a tick of a world without particles
NextSettle ==
  \/ Update
  \/ Pass1Step
  \/ Pass2
  \/ BeginParticles
  \/ EtherDone
  \/ ThunderDone
  \/ FinishTick

SpecSettle == InitSettle /\ [][NextSettle]_vars

\* the cells of type t in the front buffer
CellsOf(t) == {c \in Coords : front[c].type = t}

\* the SOIL world: no WATER, SAND or STONE anywhere
InSoilWorld == CellsOf("STONE") = {} /\ CellsOf("SAND") = {} /\ CellsOf("WATER") = {}

\* C16 (as claimed): in the world whose only cell is SOIL two rows above the
\* bottom row in column 1, the SOIL falls one row per tick and after 5
\* ticks it is at column 1 of the bottom row.
C16_SoilSettlesInColumn ==
  (AfterTick /\ InSoilWorld) =>
    /\ frameCount = 1 => CellsOf("SOIL") = {<<1, Bottom - 1>>}
    /\ frameCount >= 2 => CellsOf("SOIL") = {<<1, Bottom>>}

\* C16 (amended): the SOIL falls one row per tick, reaches the bottom row
\* after 2 ticks and is on the bottom row after every later tick, still the
\* only non-EMPTY cell; per tick it stays or shifts one column sideways.
C16_SoilSettlesOnBottomRow ==
  (AfterTick /\ InSoilWorld) =>
    /\ frameCount = 1 => CellsOf("SOIL") = {<<1, Bottom - 1>>}
    /\ frameCount = 2 => CellsOf("SOIL") = {<<1, Bottom>>}
    /\ frameCount > 2 =>
         /\ \E x \in 0 .. W - 1 : CellsOf("SOIL") = {<<x, Bottom>>}
         /\ \A c \in CellsOf("SOIL") : \A d \in Coords :
              preGrid[d].type = "SOIL" =>
                d[2] = Bottom /\ c[1] - d[1] \in {0 - 1, 0, 1}
    /\ \A c \in Coords : front[c].type \in {"EMPTY", "SOIL"}

C16_Witness ==
  /\ AfterTick
  /\ InSoilWorld
  /\ frameCount = 5
  /\ CellsOf("SOIL") = {<<0, Bottom>>}

\* The scene's update runs on every frame and runs a tick whenever the
\* simulation interval has elapsed, and a tick runs to its end: a step that
\* stays possible is eventually taken.
SpecSettleFair == SpecSettle /\ WF_vars(NextSettle)

\* the column world: the one with STONE walls
InColumnWorld == CellsOf("STONE") # {}

\* SAND on the floor of the column, WATER on it, EMPTY on top
ColumnSettled ==
  /\ front[<<1, Bottom - 2>>].type = "EMPTY"
  /\ front[<<1, Bottom - 1>>].type = "WATER"
  /\ front[<<1, Bottom>>].type = "SAND"

\* C17: in the column WATER over SAND over EMPTY (SAND denser than WATER)
\* every execution eventually reaches EMPTY over WATER over SAND and never
\* leaves it afterwards.
C17_DenserSinks == <>[](InColumnWorld => ColumnSettled)

C17_Witness ==
  /\ InColumnWorld
  /\ ColumnSettled
  /\ AfterTick
  /\ frameCount = 3
  /\ Density("SAND") > Density("WATER")

\* the cells of type t in the front buffer before the tick
PreCellsOf(t) == {c \in Coords : preGrid[c].type = t}

\* a tick that began with a lone CLOUD, its rain counter at its threshold,
\* over an EMPTY cell of a world with no other cell and no particle
RainReady(c) ==
  /\ AfterTick
  /\ preParticles = <<>>
  /\ \A d \in Coords : preGrid[d].type # "EMPTY" => d = c
  /\ preGrid[c].type = "CLOUD"
  /\ preGrid[c].rainThreshold # Undef
  /\ preGrid[c].rainCounter >= preGrid[c].rainThreshold
  /\ c[2] + 1 < H

\* the tick wrote WATER below c and nowhere else, and the cloud, wherever it
\* is now, has its rain counter reset and its decay counter higher by one
\* of the amounts in D
Rained(c, D) ==
  /\ CellsOf("WATER") = {<<c[1], c[2] + 1>>}
  /\ Cardinality(CellsOf("CLOUD")) = 1
  /\ \A d \in CellsOf("CLOUD") :
       /\ front[d].rainCounter = 0
       /\ front[d].decayCounter - preGrid[c].decayCounter \in D

\* C18 (as claimed): a CLOUD whose rain counter has reached its threshold,
\* over an unclaimed EMPTY cell, writes exactly one WATER cell directly
\* below in the next tick, resets its rain counter, and its decay counter
\* is exactly 10 higher after the tick.
C18_CloudRains ==
  \A c \in Coords : RainReady(c) => Rained(c, {10})

\* C18 (amended): such a cloud first takes its decay draw (+1 when it
\* hits); if its decay counter is then 100 or more it becomes EMPTY and
\* writes no WATER; otherwise it writes exactly one WATER cell directly
\* below, resets its rain counter to 0, and its decay counter ends 10 or 11
\* higher than before the tick.
C18_CloudRainsUnlessDecayed ==
  \A c \in Coords :
    RainReady(c) =>
      \/ /\ preGrid[c].decayCounter + 1 < 100
         /\ Rained(c, {10, 11})
      \/ /\ preGrid[c].decayCounter + 1 = 100
         /\ \/ Rained(c, {10})
            \/ CellsOf("WATER") = {} /\ CellsOf("CLOUD") = {}
      \/ /\ preGrid[c].decayCounter >= 100
         /\ CellsOf("WATER") = {} /\ CellsOf("CLOUD") = {}

\* the cloud rained, took the decay draw and moved away
C18_Witness ==
  \E c \in Coords :
    /\ RainReady(c)
    /\ Rained(c, {11})
    /\ front[c].type = "EMPTY"

\* the cloud reached its decay threshold instead of raining
C18_WitnessDecayed ==
  \E c \in Coords :
    /\ RainReady(c)
    /\ preGrid[c].decayCounter = 99
    /\ CellsOf("CLOUD") = {}

\* C19: after every tick, for every kind k other than EMPTY, stats[k] is the
\* number of front-buffer cells of type k plus the number of particles of
\* type k in the list, whatever the stats were before.
C19_StatsRecomputed ==
  AfterTick =>
    \A key \in (ElementNames \cup {"ETHER", "THUNDER"}) \ {"EMPTY"} :
      stats[key] = Cardinality(CellsOf(key))
                   + Cardinality({i \in 1 .. Len(particles) : particles[i].type = key})

\* after a second tick, with cells and a particle counted and counts that
\* differ from those of the tick before
C19_Witness ==
  /\ AfterTick
  /\ Len(dirs) = 2
  /\ \E i \in 1 .. Len(particles) : stats[particles[i].type] = 1
  /\ \E key \in ElementNames : CellsOf(key) # {} /\ stats[key] = Cardinality(CellsOf(key))
  /\ \E key \in ElementNames : key # "EMPTY" /\ Cardinality(PreCellsOf(key)) # stats[key]

\* In a step of the movement pass, cur is the coordinate being handled (the
\* one the step appends to scanLog).  Its cell has moved to d when both
\* coordinates become claimed in the step and d holds, in the write buffer,
\* a cell of the same type; the cell read at d, if not EMPTY, is displaced.
MovedTo(cur, d) ==
  /\ d # cur
  /\ grids[readIdx][cur].type # "EMPTY"
  /\ cur \notin moved /\ cur \in moved'
  /\ d \notin moved /\ d \in moved'
  /\ grids'[writeIdx][d].type = grids[readIdx][cur].type

\* the displaced cell is a liquid with fluidity, lighter than the mover
LighterLiquid(cur, d) ==
  /\ HasFluidity(grids[readIdx][d].type)
  /\ ElemState(grids[readIdx][d].type) = "liquid"
  /\ Density(grids[readIdx][d].type) < Density(grids[readIdx][cur].type)

\* C20 (as claimed): in the movement pass a cell whose element has no
\* fluidity never moves, and a cell that moves onto a non-EMPTY cell only
\* ever displaces a liquid with fluidity whose density is strictly lower
\* than its own (so a cell without fluidity is never displaced).
C20_OnlyFluidCellsMove ==
  [][(pc = "pass1" /\ scanLog' # scanLog) =>
       LET cur == scanLog'[Len(scanLog')]
       IN \A d \in Coords :
            MovedTo(cur, d) =>
              /\ HasFluidity(grids[readIdx][cur].type)
              /\ grids[readIdx][d].type # "EMPTY" => LighterLiquid(cur, d)]_vars

\* C20 (amended): in the movement pass a cell other than a CLOUD whose
\* element has no fluidity never moves, and a cell other than a CLOUD that
\* moves onto a non-EMPTY cell only displaces a liquid with fluidity whose
\* density is strictly lower than its own; a CLOUD moves, whatever its
\* fluidity, to a neighbouring coordinate above or beside it that holds
\* EMPTY or WATER, taking the WATER's place with no density test.
C20_OnlyFluidOrCloudCellsMove ==
  [][(pc = "pass1" /\ scanLog' # scanLog) =>
       LET cur == scanLog'[Len(scanLog')]
       IN \A d \in Coords :
            MovedTo(cur, d) =>
              IF grids[readIdx][cur].type = "CLOUD"
                THEN /\ grids[readIdx][d].type \in {"EMPTY", "WATER"}
                     /\ d[1] - cur[1] \in {0 - 1, 0, 1}
                     /\ d[2] - cur[2] \in {0 - 1, 0}
                     /\ grids[readIdx][d].type = "WATER" =>
                          grids'[writeIdx][cur] = grids[readIdx][d]
                ELSE /\ HasFluidity(grids[readIdx][cur].type)
                     /\ grids[readIdx][d].type # "EMPTY" =>
                          /\ LighterLiquid(cur, d)
                          /\ grids'[writeIdx][cur] = grids[readIdx][d]]_vars

\* a SAND cell has sunk into the WATER cell below it
C20_Witness ==
  /\ pc = "pass1"
  /\ \E c \in moved :
       LET d == <<c[1], c[2] + 1>>
       IN /\ d \in moved
          /\ grids[readIdx][c].type = "SAND" /\ grids[readIdx][d].type = "WATER"
          /\ grids[writeIdx][c].type = "WATER" /\ grids[writeIdx][d].type = "SAND"

\* a CLOUD cell has risen into the WATER cell above it
C20_WitnessCloud ==
  /\ pc = "pass1"
  /\ \E c \in moved :
       LET d == <<c[1], c[2] - 1>>
       IN /\ d \in moved
          /\ grids[readIdx][c].type = "CLOUD" /\ grids[readIdx][d].type = "WATER"
          /\ grids[writeIdx][c].type = "WATER" /\ grids[writeIdx][d].type = "CLOUD"

\* C21: a step of the thunder pass in which a THUNDER particle's new position
\* lies outside the grid puts no particle into the pass's output, creates no
\* particle and changes no cell; and after the tick no particle with the id
\* of a particle that left is in the particle list.
C21_ThunderDiesAtWall ==
  /\ [][(pc = "thunder" /\ exits' # exits) =>
          /\ pout' = pout
          /\ pgrid' = pgrid
          /\ grids' = grids
          /\ spawned' = spawned
          /\ gridChanged' = gridChanged]_vars
  /\ [](AfterTick =>
          \A n \in 1 .. Len(exits) : \A i \in 1 .. Len(particles) :
            particles[i].id # exits[n].id)

\* a tick has ended in which a THUNDER particle left through the left wall,
\* and one in which it left through the floor
C21_Witness ==
  /\ AfterTick
  /\ \E n \in 1 .. Len(exits) : exits[n].at[1] < 0

C21_WitnessFloor ==
  /\ AfterTick
  /\ \E n \in 1 .. Len(exits) : exits[n].at[2] >= H

\* ------------------------------------------------------------------------
\* Worlds that have been running with particles in flight (a crystal that
\* emits ETHER, ETHER over SAND, FIRE beside OIL), in which clearGrid and
\* randomizeGrid are called between ticks; two ticks are followed
\* ------------------------------------------------------------------------
ResetScenes == {[SceneList[i] EXCEPT !.fc = MaxTicks - 2] : i \in {5, 9, 10}}

InitReset == InitScene(ResetScenes)

NextReset ==
  \/ Update
  \/ Pass1Step
  \/ Pass2
  \/ BeginParticles
  \/ EtherStep
  \/ EtherDone
  \/ ThunderStep
  \/ ThunderDone
  \/ FireStep
  \/ FinishTick
  \/ ClearGrid
  \/ RandomizeGrid

SpecReset == InitReset /\ [][NextReset]_vars

\* the state after the first tick that followed the last reset
AfterTickAfterReset ==
  /\ AfterTick
  /\ lastReset # <<>>
  /\ frameCount = lastReset[1].frame + 1

\* C22: a clearGrid call leaves every coordinate of both buffers EMPTY and
\* the particle list empty; a randomizeGrid call leaves the generated terrain
\* in both buffers and the particle list empty; and the next tick starts from
\* that grid in both buffers and from an empty list, so that after it every
\* particle of the list was spawned since the call (and after a clear the
\* front buffer is EMPTY everywhere and the list is empty).
C22_ResetLeavesNothing ==
  /\ [][resets' # resets =>
          /\ particles' = <<>>
          /\ storeParticles' = <<>>
          /\ grids'[0] = lastReset'[1].grid
          /\ grids'[1] = lastReset'[1].grid
          /\ lastReset'[1].kind = "clear" => lastReset'[1].grid = AllEmpty]_vars
  /\ [](AfterTickAfterReset =>
          /\ preGrid = lastReset[1].grid
          /\ preBack = lastReset[1].grid
          /\ preParticles = <<>>
          /\ \A i \in 1 .. Len(particles) :
               \E n \in 1 .. Len(born) : born[n] = particles[i].id
          /\ lastReset[1].kind = "clear" => (front = AllEmpty /\ particles = <<>>))

\* a tick has run after a randomizeGrid call that was made while a particle
\* was in the list and the front buffer differed from the new terrain, and
\* has spawned a particle; a tick has run after such a clearGrid call
C22_Witness ==
  /\ AfterTickAfterReset
  /\ lastReset[1].kind = "randomize"
  /\ lastReset[1].dirty
  /\ particles # <<>>

C22_WitnessClear ==
  /\ AfterTickAfterReset
  /\ lastReset[1].kind = "clear"
  /\ lastReset[1].dirty

\* ------------------------------------------------------------------------
\* Start-up: main.tsx awaits loadElements, then the loading of the rules,
\* while the scene's frames already run.  The store starts with grid [] and
\* no rules; initializeGrid (an all-EMPTY grid) runs when the elements have
\* been fetched.  The model keeps an all-EMPTY grid from the start and reads
\* elementsLoad wherever the code tests whether the grid is [].
\* ------------------------------------------------------------------------
LoadTicks == 2

InitBoot ==
  /\ InitCommon
  /\ storing = FALSE
  /\ elementsLoad = "pending"
  /\ rulesLoad = "pending"
  /\ transformationRules = <<>>
  /\ particleInteractionRules = <<>>
  /\ activeBufferIndex = 0
  /\ frameCount = 0
  /\ grids = [i \in {0, 1} |-> AllEmpty]
  /\ storeGrid = AllEmpty
  /\ particles = <<>>
  /\ storeParticles = <<>>
  /\ nextParticleId = 0
  /\ born = <<>>
  /\ updateSource = "ui"
  /\ horizon = LoadTicks
  /\ stats = ZeroStats

\* gameStore.loadElements: the fetch succeeds (set elements, initializeGrid)
\* or throws (the catch logs the error)
LoadElements ==
  /\ pc = "idle"
  /\ elementsLoad = "pending"
  /\ \E ok \in BOOLEAN :
       /\ elementsLoad' = IF ok THEN "loaded" ELSE "failed"
       /\ ticked' = FALSE
  /\ UNCHANGED <<grids, lastMoveGrids, activeBufferIndex, particles, frameCount, storeGrid,
                 storeLastMove, storeParticles, nextParticleId, updateSource, pc, tickVars,
                 produced, born, preGrid, preBack, preParticles, placed, lastPlaced, pointer,
                 scanLog, dirs, impact, resets, horizon, stats, passResults, cloudsDecayed, ruleLog, storing, rulesLoad, transformationRules,
                 particleInteractionRules, lastReset, exits>>

\* gameStore.loadRules, called when loadElements has returned: the fetch
\* succeeds (the rules are split by type and set) or throws (the catch logs
\* the error)
LoadRules ==
  /\ pc = "idle"
  /\ elementsLoad # "pending"
  /\ rulesLoad = "pending"
  /\ \/ \E file \in RuleFiles :
          /\ rulesLoad' = "loaded"
          /\ transformationRules' = loadRules(file).transformationRules
          /\ particleInteractionRules' = loadRules(file).particleInteractionRules
     \/ /\ rulesLoad' = "failed"
        /\ UNCHANGED <<transformationRules, particleInteractionRules>>
  /\ ticked' = FALSE
  /\ UNCHANGED <<grids, lastMoveGrids, activeBufferIndex, particles, frameCount, storeGrid,
                 storeLastMove, storeParticles, nextParticleId, updateSource, pc, tickVars,
                 produced, born, preGrid, preBack, preParticles, placed, lastPlaced, pointer,
                 scanLog, dirs, impact, resets, horizon, stats, passResults, cloudsDecayed, ruleLog, storing, elementsLoad, lastReset, exits>>

NextLoad ==
  \/ LoadElements
  \/ LoadRules
  \/ RandomizeGrid
  \/ Update
  \/ Pass1Step
  \/ Pass2
  \/ BeginParticles
  \/ EtherStep
  \/ EtherDone
  \/ ThunderStep
  \/ ThunderDone
  \/ FireStep
  \/ FinishTick

SpecLoad == InitBoot /\ [][NextLoad]_vars

\* the names a rule may use: elements of the registry, and for a spawned
\* particle the particle kinds
KnownRule(r) ==
  /\ r.from \in ElementNames
  /\ r.to \in ElementNames
  /\ r.type # "particle_interaction" =>
       /\ r.consumes \in ElementNames \cup {"none"}
       /\ r.spawnParticle \in ElementNames \cup {"ETHER", "THUNDER", "none"}

\* C23: once the rules are loaded, every transformation rule and every
\* particle-interaction rule names only elements of the registry, and no
\* cell of either buffer and no particle has a type outside the registry.
C23_RulesKnown ==
  /\ rulesLoad = "loaded" =>
       /\ \A i \in 1 .. Len(transformationRules) : KnownRule(transformationRules[i])
       /\ \A i \in 1 .. Len(particleInteractionRules) : KnownRule(particleInteractionRules[i])
  /\ \A i \in {0, 1} : \A c \in Coords : grids[i][c].type \in ElementNames
  /\ \A i \in 1 .. Len(particles) : particles[i].type \in ElementNames \cup {"ETHER", "THUNDER"}

\* a tick has written a cell of the unknown type into the front buffer
UnknownCellWritten ==
  /\ AfterTick
  /\ \E c \in Coords : front[c].type = "GLASS"

\* C24: no step of a tick runs unless both registries have been loaded.
C24_NoTickWithoutRegistries ==
  pc # "idle" => (elementsLoad = "loaded" /\ rulesLoad = "loaded")

\* the FIRE particles Pass 1 has spawned: one per combustion of an OIL cell
Combustions == Len(OfType(spawned, "FIRE", TRUE))

\* C25: when Pass 1 has ended, the write buffer holds as many OIL cells as
\* the read buffer held, less one for every OIL cell that combusted (each
\* combustion having emitted one FIRE particle).
C25_CombustionRemovesOil ==
  pc = "pass2" =>
    Cardinality({c \in Coords : grids[writeIdx][c].type = "OIL"})
      = Cardinality({c \in Coords : preGrid[c].type = "OIL"}) - Combustions

\* the particle q is over a cell of the 3x3 block centred on c
InBlock(q, c) ==
  /\ q.x - c[1] \in {0 - 1, 0, 1}
  /\ q.y - c[2] \in {0 - 1, 0, 1}

\* the cells the working grid holds a CRYSTAL at after this step and not before
NewCrystals == {c \in Coords : pgrid'[c].type = "CRYSTAL" /\ pgrid[c].type # "CRYSTAL"}

\* C26: in a step of the ether pass that turns a cell into CRYSTAL, every
\* other living ETHER particle over the 3x3 block centred on that cell is
\* removed (one the pass has still to handle is marked dead, one it has
\* handled is no longer alive in the output), and the crystal's stored ether
\* is one plus the number of particles this step removed.
C26_CrystalAbsorbsBlock ==
  [][(pc = "ether" /\ NewCrystals # {}) =>
       LET c == CHOOSE n \in NewCrystals : TRUE
           removed == {n \in k + 1 .. Len(plist) :
                         /\ plist[n].type = "ETHER"
                         /\ plist[n].life > 0
                         /\ plist'[n].life <= 0}
       IN /\ \A n \in k + 1 .. Len(plist) :
               (plist[n].type = "ETHER" /\ plist[n].life > 0 /\ InBlock(plist[n], c))
                 => n \in removed
          /\ \A i \in 1 .. Len(pout) :
               (pout[i].type = "ETHER" /\ pout[i].life > 0 /\ InBlock(pout[i], c))
                 => ~ \E j \in 1 .. Len(pout') :
                        pout'[j].id = pout[i].id /\ pout'[j].life > 0
          /\ pgrid'[c].etherStorage = 1 + Cardinality(removed)]_vars

\* the thunder pass is over and its last explosion was an ignition
IgnitionDone ==
  /\ pc = "thunder"
  /\ k > Len(plist)
  /\ impact # <<>>
  /\ impact[2] # "WATER"

\* C27: at the end of a thunder pass whose last explosion was the ignition of
\* a flammable cell, that cell is FIRE and the THUNDER particle that ignited
\* it is not in the list the pass returns.
C27_IgnitionLeavesFire ==
  IgnitionDone =>
    /\ pgrid[impact[1]].type = "FIRE"
    /\ \A i \in 1 .. Len(pout) : pout[i].id # impact[3]

\* the fire pass is about to handle a living FIRE particle that touches no
\* CRYSTAL and has WATER in a neighbouring cell
FireMeetsWater ==
  /\ pc = "fire"
  /\ k <= Len(plist)
  /\ plist[k].life - 1 > 0
  /\ CrystalScan(pgrid, <<plist[k].x, plist[k].y>>, plist[k].life - 1) = {}
  /\ \E n \in Moore(plist[k].x, plist[k].y) : pgrid[n].type = "WATER"

\* C28: the step of the fire pass that handles a FIRE particle with WATER in
\* its Moore neighbourhood removes the particle and does nothing else: the
\* working grid is unchanged and no FIRE particle is spawned.
C28_WaterQuenchesFire ==
  [][FireMeetsWater =>
       /\ pout' = pout
       /\ pgrid' = pgrid
       /\ pnew' = pnew]_vars

\* C29: the plant-growth pass turns a cell into PLANT only when the cell was
\* EMPTY: no cell that held another element before the pass (none is written
\* by the pass before it becomes PLANT) is a PLANT after it.
C29_PlantsGrowIntoEmpty ==
  [][pc = "plant" =>
       \A c \in Coords :
         (grids'[writeIdx][c].type = "PLANT" /\ grids[writeIdx][c].type # "PLANT")
           => grids[writeIdx][c].type = "EMPTY"]_vars

\* Pass 1 of a world whose crystals keep their storage is about to handle a
\* CRYSTAL whose storage is initialised and holds more than one unit
CrystalStep ==
  /\ storing
  /\ pc = "pass1"
  /\ <<ScanX(k), ScanY(k)>> \notin moved
  /\ grids[readIdx][<<ScanX(k), ScanY(k)>>].type = "CRYSTAL"
  /\ grids[readIdx][<<ScanX(k), ScanY(k)>>].etherStorage > 1

\* what handleCrystalBehavior can leave when the crystal under the scan emits
\* ETHER with consumption
CrystalDrains ==
  {handleCrystalBehavior(grids[readIdx], lastMoveGrids[readIdx], grids[writeIdx],
                         lastMoveGrids[writeIdx], moved, ScanX(k), ScanY(k), scanRight, cd, d) :
     cd \in {e \in CrystalDraws : e.emit /\ e.consume}, d \in Draws}

\* C30 (emission with consumption): when the Pass 1 step of a CRYSTAL that
\* stores more than one unit is an emission with consumption, the crystal the
\* step writes, at its own coordinate when it rests and at its new
\* coordinate when it falls, stores exactly one unit less.
C30_EmissionLowersStorage ==
  [][(CrystalStep /\ \E r \in CrystalDrains :
                       /\ grids' = [grids EXCEPT ![writeIdx] = r.g]
                       /\ moved' = r.m
                       /\ spawned' = spawned \o r.p) =>
       \A b \in touched' :
         grids'[writeIdx][b].type = "CRYSTAL" =>
           grids'[writeIdx][b].etherStorage
             = grids[readIdx][<<ScanX(k), ScanY(k)>>].etherStorage - 1]_vars

\* coordinates at which the last transformation pass found a rule whose
\* conditions held / a type with rules of which none had its conditions hold
HeldAt == {ruleLog[n].at : n \in {m \in 1 .. Len(ruleLog) : ruleLog[m].met}}
LapsedAt == {ruleLog[n].at : n \in {m \in 1 .. Len(ruleLog) : ~ ruleLog[m].met}}

\* C31 as stated: after the transformation pass every cell for which no
\* rule's conditions held in the pass, whatever its type, has counter zero.
C31_CounterZeroUnlessHeld ==
  pc = "plant" => \A c \in Coords \ HeldAt : grids[writeIdx][c].counter = 0

\* C31, amended: after the transformation pass every cell whose type has a
\* rule and for which no rule's conditions held in the pass has counter zero.
C31_CounterZeroAfterLapse ==
  pc = "plant" => \A c \in LapsedAt : grids[writeIdx][c].counter = 0

\* a SOIL that had counted towards MUD lost its WATER and was reset
C31_Witness ==
  /\ pc = "plant"
  /\ \E c \in LapsedAt :
       /\ preGrid[c].type = "SOIL"
       /\ preGrid[c].counter > 0
       /\ grids[writeIdx][c].type = "SOIL"
       /\ grids[writeIdx][c].counter = 0

\* entries of the log for committed transformations under a rule that consumes
Commits(log) ==
  {n \in 1 .. Len(log) : log[n].done /\ log[n].eats # "none"}

\* types that rules consume and that no rule turns a cell from or into
OnlyConsumed ==
  {transformationRules[i].consumes : i \in 1 .. Len(transformationRules)}
    \ ({"none"} \cup {transformationRules[i].from : i \in 1 .. Len(transformationRules)}
               \cup {transformationRules[i].to : i \in 1 .. Len(transformationRules)})

\* C32: in a transformation pass, every committed transformation under a
\* rule that consumes rewrites one Moore neighbour of the consumed type to
\* EMPTY when it has such a neighbour and none when it has not, no two
\* transformations consume the same cell, and the cells of a consumed type
\* that are gone after the pass are exactly the cells so rewritten.
C32_ConsumesExactlyOne ==
  [][pc = "pass2" =>
       LET before == grids[writeIdx]
           after == grids'[writeIdx]
           log == ruleLog'
       IN /\ \A n \in Commits(log) :
               IF log[n].had > 0
                 THEN /\ Len(log[n].eaten) = 1
                      /\ log[n].eaten[1] \in Moore(log[n].at[1], log[n].at[2])
                      /\ before[log[n].eaten[1]].type = log[n].eats
                      /\ after[log[n].eaten[1]].type = "EMPTY"
                 ELSE log[n].eaten = <<>>
          /\ \A m, n \in Commits(log) :
               (m # n /\ log[m].eaten # <<>>) => log[m].eaten # log[n].eaten
          /\ \A t \in OnlyConsumed :
               {c \in Coords : before[c].type = t /\ after[c].type # t}
                 = {log[n].eaten[1] : n \in {m \in Commits(log) : log[m].eats = t
                                                               /\ log[m].eaten # <<>>}}]_vars

\* two transformations of one pass, with a common WATER neighbour, each
\* consumed a WATER cell
C32_Witness ==
  /\ pc = "plant"
  /\ \E m, n \in Commits(ruleLog) :
       /\ m # n
       /\ ruleLog[m].eaten # <<>>
       /\ ruleLog[n].eaten # <<>>
       /\ ruleLog[m].had = 2

\* the particle passes of the tick are about to start
ParticlePassesStart == pc = "ether" /\ k = 1

\* C33: when the particle passes of a tick start, the list they are handed
\* holds, for every transformation the tick committed under a rule with
\* spawnParticle, a particle of that type with life 150 over the
\* transformed cell.
C33_RuleParticleHandedOn ==
  ParticlePassesStart =>
    \A n \in 1 .. Len(ruleLog) : \A i \in 1 .. Len(ruleLog[n].sp) :
      \E j \in 1 .. Len(plist) :
        /\ plist[j].type = ruleLog[n].sp[i].type
        /\ <<plist[j].x, plist[j].y>> = ruleLog[n].at
        /\ plist[j].life = EtherLife

\* the scan of Pass 1 is at a cell that is not EMPTY and was not written
\* as a mover, and the step moves nothing
StaysInPass1 ==
  /\ pc = "pass1"
  /\ <<ScanX(k), ScanY(k)>> \notin moved
  /\ grids[readIdx][<<ScanX(k), ScanY(k)>>].type \notin {"EMPTY", "CLOUD", "OIL", "CRYSTAL"}
  /\ moved' = moved

\* C34: a cell that stays in Pass 1, because its type has no behaviour or
\* because its granular or plant behaviour moved nothing, is written to its
\* coordinate of the write buffer with the cell data and the last-move
\* value it has in the read buffer.
C34_StayingCellCopied ==
  [][StaysInPass1 =>
       LET c == <<ScanX(k), ScanY(k)>>
       IN /\ grids'[writeIdx][c] = grids[readIdx][c]
          /\ lastMoveGrids'[writeIdx][c] = lastMoveGrids[readIdx][c]]_vars

\* the number of cells of g that equal cell
CountOf(g, cell) == Cardinality({c \in Coords : g[c] = cell})

\* the grids a and b hold the same PLANT cells, each as often
PlantsKept(a, b) ==
  \A c \in Coords :
    /\ a[c].type = "PLANT" => CountOf(a, a[c]) = CountOf(b, a[c])
    /\ b[c].type = "PLANT" => CountOf(a, b[c]) = CountOf(b, b[c])

LivingModes == {"stem", "ground_cover"}

\* what one plant pass may make of the cell old
Ages(old, new) ==
  IF old.type # "PLANT" THEN TRUE
  ELSE IF old.plantMode = "withered"
    THEN \/ new.type = "OIL"
         \/ /\ new.type = "PLANT"
            /\ new.plantMode = "withered"
            /\ new.oilCounter = old.oilCounter + 1
  ELSE IF old.plantMode \in LivingModes
    THEN /\ new.type = "PLANT"
         /\ \/ new.plantMode = "withered" /\ new.oilCounter = 0
            \/ new.plantMode = old.plantMode /\ new.decayCounter = old.decayCounter + 1
  ELSE TRUE

\* C35: PLANT modes only progress living, withered, OIL.  The movement pass
\* carries every PLANT cell, moved or not, into the write buffer with its
\* mode and counters; the plant pass of the tick then raises the decay
\* counter of every living cell by one or withers it, and raises the oil
\* counter of every withered cell by one or turns it into OIL.
C35_PlantsOnlyAge ==
  [][/\ (pc = "pass1" /\ pc' = "pass2") =>
          PlantsKept(grids[readIdx], grids'[writeIdx])
     /\ pc = "plant" =>
          \A c \in Coords : Ages(grids[writeIdx][c], grids'[writeIdx][c])]_vars

\* a withered plant has moved in the tick (the read buffer has EMPTY where
\* it is now) and its oil counter has risen in the plant pass, while a stem
\* that did not move withered in this pass
C35_Witness ==
  /\ pc = "ether"
  /\ k = 1
  /\ \E c \in Coords :
       /\ grids[readIdx][c].type = "EMPTY"
       /\ pgrid[c].type = "PLANT"
       /\ pgrid[c].plantMode = "withered"
       /\ pgrid[c].oilCounter = OIL_THRESHOLD
  /\ \E c \in Coords :
       /\ grids[readIdx][c].plantMode = "stem"
       /\ pgrid[c].type = "PLANT"
       /\ pgrid[c].plantMode = "withered"
       /\ pgrid[c].oilCounter = 0

\* the coordinates of g that hold a cell of type t
Holding(g, t) == {c \in Coords : g[c].type = t}

\* the CLOUD at d of the write buffer is the CLOUD read at c, one step of
\* handleCloud later: same thresholds once drawn, counters that rose by at
\* most the touch and the draw, or were reset by the rain or the discharge
SameCloud(old, new) ==
  /\ new.type = "CLOUD"
  /\ old.rainThreshold # Undef => new.rainThreshold = old.rainThreshold
  /\ old.chargeThreshold # Undef => new.chargeThreshold = old.chargeThreshold
  /\ new.rainThreshold # Undef /\ new.chargeThreshold # Undef
  /\ new.decayCounter \in {old.decayCounter, old.decayCounter + 1,
                           old.decayCounter + RainDecay, old.decayCounter + RainDecay + 1}
  /\ new.rainCounter \in {0, old.rainCounter, old.rainCounter + 1, old.rainCounter + 2}
  /\ new.chargeCounter \in {0, old.chargeCounter, old.chargeCounter + 1,
                            old.chargeCounter + 2}

\* C36: the movement pass neither duplicates nor loses a CLOUD.  At the
\* step of a cloud that does not decay, exactly one of the coordinates the
\* step wrote holds a CLOUD, it carries the counters and thresholds of the
\* cloud that was read, and a cloud that left its coordinate leaves there
\* the WATER cell it found at its target, or EMPTY; at the end of the pass
\* the write buffer holds as many clouds as the read buffer, less the
\* clouds that decayed.
C36_CloudsKept ==
  [][pc = "pass1" =>
       LET c == <<ScanX(k), ScanY(k)>>
           rg == grids[readIdx]
           wg == grids'[writeIdx]
           at == {d \in touched' : wg[d].type = "CLOUD"}
       IN /\ (rg[c].type = "CLOUD" /\ c \notin moved /\ c \notin cloudsDecayed') =>
               /\ Cardinality(at) = 1
               /\ \A d \in at :
                    /\ SameCloud(rg[c], wg[d])
                    /\ d # c => /\ rg[d].type \in {"EMPTY", "WATER"}
                                /\ rg[d].type = "WATER" => wg[c] = rg[d]
                                /\ rg[d].type = "EMPTY" => wg[c].type = "EMPTY"
          /\ pc' = "pass2" =>
               Cardinality(Holding(wg, "CLOUD"))
                 = Cardinality(Holding(rg, "CLOUD")) - Cardinality(cloudsDecayed')]_vars

\* a pass has ended in which one cloud decayed, and another changed places
\* with a WATER cell and carries its thresholds and the counter it had
C36_Witness ==
  /\ pc = "pass2"
  /\ cloudsDecayed # {}
  /\ \E c, d \in Coords :
       /\ c # d
       /\ grids[readIdx][c].type = "CLOUD"
       /\ grids[readIdx][d].type = "WATER"
       /\ grids[writeIdx][d].type = "CLOUD"
       /\ grids[writeIdx][c].type = "WATER"
       /\ grids[writeIdx][d].rainThreshold = grids[readIdx][c].rainThreshold
       /\ grids[writeIdx][d].decayCounter > 0

\* the FIRE particles of the list ps
FireIn(ps) == {ps[j] : j \in {i \in 1 .. Len(ps) : ps[i].type = "FIRE"}}

\* C37: every FIRE particle lies inside the grid, in the list the fire pass
\* works on and in every list a FIRE particle is created into (the
\* particles of Pass 1, the particles the fire pass spawns, the particles an
\* explosion scatters, the list the tick returns).
C37_FireParticlesInGrid ==
  \A p \in FireIn(plist) \cup FireIn(spawned) \cup FireIn(pnew) \cup FireIn(scattered)
             \cup FireIn(particles) :
    InGrid(p.x, p.y)

\* the fire pass starts on a list holding a FIRE particle on the rim of the
\* grid that an earlier fire pass spawned over a neighbour
C37_Witness ==
  /\ pc = "fire"
  /\ k = 1
  /\ frameCount > 0
  /\ \E p \in FireIn(plist) :
       /\ p.life \in {q - 1 : q \in FireLives} \cup FireLives
       /\ (p.x \in {0, Right} \/ p.y \in {0, Bottom})

\* C38: when the fire pass has returned, the copy-back leaves the write
\* buffer equal, in type and cell data at every coordinate, to the grid the
\* particle passes produced, whichever of them changed it.
C38_CopyBackKeepsChanges ==
  [][(pc = "fire" /\ pc' = "idle") => produced' = pgrid]_vars

\* a tick has ended in which all three passes changed the grid: the ether
\* pass formed a CRYSTAL holding ether where the tick began with SAND, and
\* the copy-back wrote it, storage included, into the buffer that is now the
\* front
C38_Witness ==
  /\ pc = "idle"
  /\ ticked
  /\ passResults.etherChanged
  /\ passResults.thunderChanged
  /\ passResults.fireChanged
  /\ \E c \in Coords :
       /\ preGrid[c].type = "SAND"
       /\ produced[c].type = "CRYSTAL"
       /\ produced[c].etherStorage >= 1
       /\ grids[activeBufferIndex][c] = produced[c]

====
